---- MODULE Spec2Model ----
(***************************************************************************)
(* Model of the fractal explorer: the render worker                        *)
(* (src/workers/fractalWorker.ts), the formula compiler and complex        *)
(* arithmetic (src/unnamed/part_000, the fractalMath library) and the      *)
(* render effect of the control surface (src/app/page.tsx).                *)
(*                                                                         *)
(* Numbers.  A JavaScript number is modelled as a record: a finite value   *)
(* (an integer; the inputs are chosen so that every finite value the       *)
(* kernel computes is an integer), +Infinity, -Infinity, NaN, or "unrep":  *)
(* a finite value that is not an integer and that the model does not       *)
(* represent.  The inputs are chosen so that "unrep" is never produced.    *)
(***************************************************************************)
EXTENDS Integers, Sequences, FiniteSets, TLC

\* ------------------------------------------------------------------ bounds
MaxRequests == 2
MaxHeight == 3
MaxIter == 2
\* the grid of the enclosures of non-integer values: 1 is Resolution units
Resolution == 1024

\* --------------------------------------------------------- number algebra
Fin(n) == [k |-> "fin", v |-> n]
PosInf == [k |-> "inf", v |-> 1]
NegInf == [k |-> "inf", v |-> -1]
NaN == [k |-> "nan", v |-> 0]
Unrep == [k |-> "unrep", v |-> 0]

Sign(n) == IF n > 0 THEN 1 ELSE IF n < 0 THEN -1 ELSE 0

\* Number.isFinite
NumberIsFinite(a) == a.k \in {"fin", "unrep"}

FNeg(a) == IF a.k = "fin" THEN Fin(-a.v)
           ELSE IF a.k = "inf" THEN [k |-> "inf", v |-> -a.v]
           ELSE a

\* IEEE-754 addition
FAdd(a, b) ==
  IF a.k = "nan" \/ b.k = "nan" THEN NaN
  ELSE IF a.k = "inf" /\ b.k = "inf" THEN (IF a.v = b.v THEN a ELSE NaN)
  ELSE IF a.k = "inf" THEN a
  ELSE IF b.k = "inf" THEN b
  ELSE IF a.k = "unrep" \/ b.k = "unrep" THEN Unrep
  ELSE Fin(a.v + b.v)

FSub(a, b) == FAdd(a, FNeg(b))

\* IEEE-754 multiplication
FMul(a, b) ==
  IF a.k = "nan" \/ b.k = "nan" THEN NaN
  ELSE IF a.k = "unrep" \/ b.k = "unrep" THEN Unrep
  ELSE IF a.k = "inf" \/ b.k = "inf" THEN
         (IF a.v = 0 \/ b.v = 0 THEN NaN
          ELSE [k |-> "inf", v |-> Sign(a.v) * Sign(b.v)])
  ELSE Fin(a.v * b.v)

\* IEEE-754 division of finite integers: exact quotients only
FDiv(a, b) ==
  IF a.k = "nan" \/ b.k = "nan" THEN NaN
  ELSE IF a.k = "unrep" \/ b.k = "unrep" THEN Unrep
  ELSE IF a.k = "inf" /\ b.k = "inf" THEN NaN
  ELSE IF a.k = "inf" THEN
         [k |-> "inf", v |-> a.v * (IF b.v < 0 THEN -1 ELSE 1)]
  ELSE IF b.k = "inf" THEN Fin(0)
  ELSE IF b.v = 0 THEN
         (IF a.v = 0 THEN NaN ELSE [k |-> "inf", v |-> Sign(a.v)])
  ELSE IF a.v % b.v = 0 THEN
         Fin(Sign(a.v) * Sign(b.v)
             * ((IF a.v < 0 THEN -a.v ELSE a.v) \div (IF b.v < 0 THEN -b.v ELSE b.v)))
  ELSE Unrep

\* a > n for an integer n (every comparison with NaN is false)
FGt(a, n) ==
  IF a.k = "fin" THEN a.v > n
  ELSE IF a.k = "inf" THEN a.v = 1
  ELSE FALSE

\* a === 0
FIsZero(a) == a.k = "fin" /\ a.v = 0

\* ------------------------------------------ complex arithmetic (createOps)
complex(re, im) == [re |-> re, im |-> im]
C0 == complex(Fin(0), Fin(0))

add(a, b) == complex(FAdd(a.re, b.re), FAdd(a.im, b.im))

mul(a, b) ==
  complex(FSub(FMul(a.re, b.re), FMul(a.im, b.im)),
          FAdd(FMul(a.re, b.im), FMul(a.im, b.re)))

\* denom = b.re*b.re + b.im*b.im || 1e-12.  With the floor 1e-12 and finite
\* a the numerators are 0*a, so the quotient is 0/1e-12 = 0.
div(a, b) ==
  LET d == FAdd(FMul(b.re, b.re), FMul(b.im, b.im))
      nre == FAdd(FMul(a.re, b.re), FMul(a.im, b.im))
      nim == FSub(FMul(a.im, b.re), FMul(a.re, b.im))
  IN  IF FIsZero(d) \/ d.k = "nan"
        THEN complex(IF nre.k = "fin" THEN Fin(0) ELSE NaN,
                     IF nim.k = "fin" THEN Fin(0) ELSE NaN)
        ELSE complex(FDiv(nre, d), FDiv(nim, d))

\* Large values.  With a in units of 2^1000 and b in units of 1, every
\* product and sum of div is in units of 2^1000; the doubles end below
\* 2^1024 = 2^24 units, and a result of that magnitude or more rounds to an
\* infinity.
RoundToDouble(x) ==
  IF x.k = "fin" /\ (x.v >= 2^24 \/ x.v <= -(2^24))
    THEN [k |-> "inf", v |-> Sign(x.v)]
    ELSE x

\* div on such a and b, every operation rounded; b = (0,0) gives the
\* denominator 1e-12 and the numerators a.re*0 + a.im*0 = 0
divDouble(a, b) ==
  LET denom == FAdd(FMul(b.re, b.re), FMul(b.im, b.im))
      nre == RoundToDouble(FAdd(RoundToDouble(FMul(a.re, b.re)),
                                RoundToDouble(FMul(a.im, b.im))))
      nim == RoundToDouble(FSub(RoundToDouble(FMul(a.im, b.re)),
                                RoundToDouble(FMul(a.re, b.im))))
  IN  IF FIsZero(denom)
        THEN complex(Fin(0), Fin(0))
        ELSE complex(RoundToDouble(FDiv(nre, denom)), RoundToDouble(FDiv(nim, denom)))

\* the loop that multiplies the result in every round
RECURSIVE powLoop_NoOddTest(_, _, _)
powLoop_NoOddTest(result, current, expValue) ==
  IF expValue > 0
    THEN powLoop_NoOddTest(mul(result, current), mul(current, current),
                           expValue \div 2)
    ELSE result

RECURSIVE powLoop(_, _, _)
powLoop(result, current, expValue) ==
  IF expValue > 0
    THEN powLoop(IF expValue % 2 = 1 THEN mul(result, current) ELSE result,
                 mul(current, current),
                 expValue \div 2)
    ELSE result

powInt(base, exponent) ==
  IF exponent = 0 THEN complex(Fin(1), Fin(0))
  ELSE IF exponent < 0
    THEN div(complex(Fin(1), Fin(0)), powLoop(complex(Fin(1), Fin(0)), base, -exponent))
    ELSE powLoop(complex(Fin(1), Fin(0)), base, exponent)

\* Math.hypot(z.re, z.im) === 0
HypotIsZero(z) == FIsZero(z.re) /\ FIsZero(z.im)

\* pow: the integer branch is computed; the polar branches yield values
\* that are not integers and are left unrepresented
pow(z, exponent) ==
  IF HypotIsZero(z) THEN C0
  ELSE IF FIsZero(exponent.im) /\ exponent.re.k = "fin"
          /\ exponent.re.v <= 32 /\ exponent.re.v >= -32
    THEN powInt(z, exponent.re.v)
    ELSE complex(Unrep, Unrep)

fallbackEvaluator(z, c, exponent) == add(pow(z, exponent), c)

\* ------------------------------------------------------------ source texts
\* A source text is a sequence of tokens; " " and "\n" are white space, any
\* other token is a run of non-blank characters.
WhiteSpace == {" ", "\n"}

defaultEquationSource ==
  <<"return", " ", "ops.add(ops.pow(z,", " ", "exponent),", " ", "c);">>

FEATHER_EQUATION_SOURCE ==
  <<"const", " ", "numerator", " ", "=", " ", "ops.pow(z,", " ", "3);", "\n",
    "const", " ", "denom", " ", "=", " ", "1+Math.pow(ops.magnitude(z),2);", "\n",
    "return", " ", "ops.add(ops.div(numerator,ops.complex(denom,0)),", " ", "c);">>

defaultInteriorSource ==
  <<"const", " ", "[r,g,b]", " ", "=", " ", "helpers.hslToRgb(hue,saturation,lightness);",
    "\n", "return", " ", "{r,g,b};">>

defaultExteriorSource == <<"return", " ", "helpers.palette(sample.shade);">>

\* the default equation as a user may retype it: same words, other blanks
SpacedDefaultEquation ==
  <<"\n", "return", " ", " ", "ops.add(ops.pow(z,", "\n", "exponent),", " ", "c);", " ">>

\* "return 42;": constructs, returns a number
ShapeErrorEquation == <<"return", " ", "42;">>
\* does not parse
SyntaxErrorEquation == <<"return", " ", "ops.add(;">>
\* (z.re === 0 && z.im === 0) ? ops.complex(20, 0) : ops.complex(Infinity, 0)
InfinityEquation ==
  <<"return", " ", "(z.re===0&&z.im===0)", " ", "?", " ", "ops.complex(20,0)", " ", ":",
    " ", "ops.complex(Infinity,0);">>
\* if (c.im > 0) throw new Error("boom"); return ops.add(ops.pow(z, exponent), c);
ThrowingEquation ==
  <<"if", " ", "(c.im>0)", " ", "throw", " ", "new", " ", "Error('boom');", " ",
    "return", " ", "ops.add(ops.pow(z,", " ", "exponent),", " ", "c);">>
\* if (c.im > 0) return undefined; return ops.complex(3, 0);
UndefinedEquation ==
  <<"if", " ", "(c.im>0)", " ", "return;", " ", "return", " ", "ops.complex(3,0);">>

\* throw "boom";  (the thrown value is a string, not an Error)
ThrowStringEquation == <<"throw", " ", "'boom';">>

\* self.onmessage = null; return ops.add(ops.pow(z, exponent), c);
HandlerEquation ==
  <<"self.onmessage", " ", "=", " ", "null;", " ",
    "return", " ", "ops.add(ops.pow(z,", " ", "exponent),", " ", "c);">>

\* "return 7;": constructs, returns a number
ShapeErrorInterior == <<"return", " ", "7;">>
\* if (orbit.length > 1) return null; return { r: 0, g: 0, b: 0 };
NullInterior ==
  <<"if", " ", "(orbit.length>1)", " ", "return", " ", "null;", " ",
    "return", " ", "{r:0,g:0,b:0};">>

\* return { r: NaN, g: Infinity, b: -Infinity };
NonFiniteInterior == <<"return", " ", "{r:NaN,g:Infinity,b:-Infinity};">>
\* return { r: 300, g: -5, b: 128 };
OutOfRangeInterior == <<"return", " ", "{r:300,g:-5,b:128};">>

\* throw "bang";
ThrowStringInterior == <<"throw", " ", "'bang';">>

CustomExterior == <<"return", " ", "{r:255,g:0,b:0};">>

\* source.replace(/\s+/g, " "): every run of white space becomes one blank
RECURSIVE CollapseWhiteSpace(_)
CollapseWhiteSpace(source) ==
  IF source = <<>> THEN <<>>
  ELSE IF Head(source) \in WhiteSpace
    THEN IF Len(source) > 1 /\ source[2] \in WhiteSpace
           THEN CollapseWhiteSpace(Tail(source))
           ELSE <<" ">> \o CollapseWhiteSpace(Tail(source))
    ELSE <<Head(source)>> \o CollapseWhiteSpace(Tail(source))

\* String.prototype.trim
RECURSIVE TrimStart(_)
TrimStart(source) ==
  IF source # <<>> /\ Head(source) \in WhiteSpace THEN TrimStart(Tail(source))
  ELSE source

RECURSIVE TrimEnd(_)
TrimEnd(source) ==
  IF source # <<>> /\ source[Len(source)] \in WhiteSpace
    THEN TrimEnd(SubSeq(source, 1, Len(source) - 1))
    ELSE source

normalizeEquation(source) == TrimEnd(TrimStart(CollapseWhiteSpace(source)))

normalizeInterior(source) == normalizeEquation(source)

DEFAULT_EQUATION_NORMALIZED == normalizeEquation(defaultEquationSource)
FEATHER_EQUATION_NORMALIZED == normalizeEquation(FEATHER_EQUATION_SOURCE)
DEFAULT_INTERIOR_NORMALIZED == normalizeInterior(defaultInteriorSource)
MAX_SHADER_ITERATIONS == 4096

\* null is modelled as -1
getEquationMode(normalized) ==
  IF normalized = DEFAULT_EQUATION_NORMALIZED THEN 0
  ELSE IF normalized = FEATHER_EQUATION_NORMALIZED THEN 1
  ELSE -1

\* ---------------------------------------------- the Function constructor
\* What `new Function(...)` and a call of the result do for the texts above.
\* JavaScript ignores the amount of white space between tokens, so the
\* behaviour is looked up by the normalized text.  A raw value is a record
\* [t, val, msg]: t is "complex" ({re, im} numbers), "rgb" ({r, g, b}
\* numbers), "number", "undefined", "null" or "throw".
\* For "throw", msg is the message property of the thrown value: the message
\* of an Error, Undefined for a thrown string.
Raw(t, val, msg) == [t |-> t, val |-> val, msg |-> msg]

\* the value undefined, where a string or null ("") is expected
Undefined == "<undefined>"

\* the message of the SyntaxError, or "" when the text parses
ConstructError(source) ==
  IF normalizeEquation(source) = normalizeEquation(SyntaxErrorEquation)
    THEN "Unexpected token ';'"
    ELSE ""

\* The body of a function made by `new Function` runs in the global scope:
\* in the worker, `self` is the DedicatedWorkerGlobalScope that the worker
\* calls ctx.  Does a call of the function made from source assign
\* self.onmessage?
AssignsOnmessage(source) ==
  normalizeEquation(source) = normalizeEquation(HandlerEquation)

\* fn(z, c, exponent, ops) for an equation text
RunEquation(source, z, c, exponent) ==
  LET n == normalizeEquation(source) IN
  IF n = DEFAULT_EQUATION_NORMALIZED
    THEN Raw("complex", add(pow(z, exponent), c), "")
  ELSE IF n = FEATHER_EQUATION_NORMALIZED
    THEN LET numerator == pow(z, complex(Fin(3), Fin(0)))
             denom == FAdd(Fin(1), FAdd(FMul(z.re, z.re), FMul(z.im, z.im)))
         IN  Raw("complex", add(div(numerator, complex(denom, Fin(0))), c), "")
  ELSE IF n = normalizeEquation(ShapeErrorEquation)
    THEN Raw("number", C0, "")
  ELSE IF n = normalizeEquation(InfinityEquation)
    THEN Raw("complex",
             IF FIsZero(z.re) /\ FIsZero(z.im) THEN complex(Fin(20), Fin(0))
             ELSE complex(PosInf, Fin(0)), "")
  ELSE IF n = normalizeEquation(ThrowingEquation)
    THEN IF FGt(c.im, 0) THEN Raw("throw", C0, "boom")
         ELSE Raw("complex", add(pow(z, exponent), c), "")
  ELSE IF n = normalizeEquation(UndefinedEquation)
    THEN IF FGt(c.im, 0) THEN Raw("undefined", C0, "")
         ELSE Raw("complex", complex(Fin(3), Fin(0)), "")
  ELSE IF n = normalizeEquation(ThrowStringEquation)
    THEN Raw("throw", C0, Undefined)
  ELSE IF n = normalizeEquation(HandlerEquation)
    THEN Raw("complex", add(pow(z, exponent), c), "")
  ELSE Raw("undefined", C0, "")

Rgb(r, g, b) == [r |-> r, g |-> g, b |-> b]

\* hslToRgb with m = l, without the half of the chroma
hslToRgb_NoChromaOffset(h, s4, l4) ==
  LET rem360(a) == IF a < 0 THEN -((-a) % 360) ELSE a % 360
      abs(a) == IF a < 0 THEN -a ELSE a
      hue == rem360(rem360(h) + 360)
      c == 120 * (4 - abs(2 * l4 - 4)) * s4
      x == 2 * (4 - abs(2 * l4 - 4)) * s4 * (60 - abs((hue % 120) - 60))
      rgb1 == IF hue >= 0 /\ hue < 60 THEN <<c, x, 0>>
              ELSE IF hue >= 60 /\ hue < 120 THEN <<x, c, 0>>
              ELSE IF hue >= 120 /\ hue < 180 THEN <<0, c, x>>
              ELSE IF hue >= 180 /\ hue < 240 THEN <<0, x, c>>
              ELSE IF hue >= 240 /\ hue < 300 THEN <<x, 0, c>>
              ELSE IF hue >= 300 /\ hue < 360 THEN <<c, 0, x>>
              ELSE <<0, 0, 0>>
      m == 480 * l4
      round255(v) == (2 * 255 * v + 1920) \div (2 * 1920)
  IN  <<round255(rgb1[1] + m), round255(rgb1[2] + m), round255(rgb1[3] + m)>>

\* hslToRgb(h, s4 / 4, l4 / 4) for an integer h.  The values c, x, r1, g1,
\* b1 and m are exact in units of 1/1920 (hp = hue/60 and hp % 2 = (hue %
\* 120)/60); rem360 is JavaScript's a % 360, whose sign is that of a;
\* round255(v) is Math.round(v * 255), the floor of v * 255 + 1/2.
hslToRgb(h, s4, l4) ==
  LET rem360(a) == IF a < 0 THEN -((-a) % 360) ELSE a % 360
      abs(a) == IF a < 0 THEN -a ELSE a
      hue == rem360(rem360(h) + 360)
      c == 120 * (4 - abs(2 * l4 - 4)) * s4
      x == 2 * (4 - abs(2 * l4 - 4)) * s4 * (60 - abs((hue % 120) - 60))
      rgb1 == IF hue >= 0 /\ hue < 60 THEN <<c, x, 0>>
              ELSE IF hue >= 60 /\ hue < 120 THEN <<x, c, 0>>
              ELSE IF hue >= 120 /\ hue < 180 THEN <<0, c, x>>
              ELSE IF hue >= 180 /\ hue < 240 THEN <<0, x, c>>
              ELSE IF hue >= 240 /\ hue < 300 THEN <<x, 0, c>>
              ELSE IF hue >= 300 /\ hue < 360 THEN <<c, 0, x>>
              ELSE <<0, 0, 0>>
      m == 480 * l4 - c \div 2
      round255(v) == (2 * 255 * v + 1920) \div (2 * 1920)
  IN  <<round255(rgb1[1] + m), round255(rgb1[2] + m), round255(rgb1[3] + m)>>

\* fn(orbit, ops, helpers) for an interior text; only orbit.length is used
\* by the texts above.  The colour of the default mapper (helpers.hslToRgb of
\* the orbit statistics) is not computed: its channels are left unrepresented.
RunInterior(source, orbitLength) ==
  LET n == normalizeInterior(source) IN
  IF n = DEFAULT_INTERIOR_NORMALIZED THEN Raw("rgb", Rgb(Unrep, Unrep, Unrep), "")
  ELSE IF n = normalizeInterior(ShapeErrorInterior) THEN Raw("number", C0, "")
  ELSE IF n = normalizeInterior(NullInterior)
    THEN IF orbitLength > 1 THEN Raw("null", C0, "")
         ELSE Raw("rgb", Rgb(Fin(0), Fin(0), Fin(0)), "")
  ELSE IF n = normalizeInterior(NonFiniteInterior)
    THEN Raw("rgb", Rgb(NaN, PosInf, NegInf), "")
  ELSE IF n = normalizeInterior(OutOfRangeInterior)
    THEN Raw("rgb", Rgb(Fin(300), Fin(-5), Fin(128)), "")
  ELSE IF n = normalizeInterior(ThrowStringInterior)
    THEN Raw("throw", C0, Undefined)
  ELSE Raw("undefined", C0, "")

isComplexLike(value) == value.t = "complex"

isRgbLike(value) == value.t = "rgb"

\* sanitizeComplex without the test of the components
sanitizeComplex_NoFiniteTest(value) ==
  IF ~isComplexLike(value) THEN C0
  ELSE value.val

\* the sanitized value of a raw result
sanitizeComplex(value) ==
  IF ~isComplexLike(value) THEN C0
  ELSE IF ~NumberIsFinite(value.val.re) \/ ~NumberIsFinite(value.val.im) THEN C0
  ELSE value.val

\* Math.round on the values of the model (integers, the infinities, NaN)
MathRound(a) == a

\* Math.min(255, a) and Math.max(0, a): NaN if a is NaN
MathMin255(a) ==
  IF a.k = "nan" THEN NaN
  ELSE IF a.k = "inf" THEN (IF a.v = 1 THEN Fin(255) ELSE a)
  ELSE IF a.k = "fin" /\ a.v > 255 THEN Fin(255)
  ELSE a

MathMax0(a) ==
  IF a.k = "nan" THEN NaN
  ELSE IF a.k = "inf" THEN (IF a.v = 1 THEN a ELSE Fin(0))
  ELSE IF a.k = "fin" /\ a.v < 0 THEN Fin(0)
  ELSE a

clamp(v) == MathMax0(MathMin255(MathRound(v)))

\* sanitizeRgb of an { r, g, b } value
sanitizeRgb(value) == Rgb(clamp(value.r), clamp(value.g), clamp(value.b))

\* the outcome of the test call of compileEquation, from its raw result; the
\* catch returns (error as Error).message
checkedEquation(test) ==
  IF test.t = "throw" THEN [fn |-> FALSE, error |-> test.msg]
  ELSE IF ~isComplexLike(test)
    THEN [fn |-> FALSE,
          error |-> "The equation must return ops.complex(...) or { re, im }."]
  ELSE [fn |-> TRUE, error |-> ""]

\* compileEquation: [fn, error]; fn is TRUE for a callable, FALSE for null,
\* error is "" for null
compileEquation(source) ==
  IF ConstructError(source) # ""
    THEN [fn |-> FALSE, error |-> ConstructError(source)]
    ELSE checkedEquation(RunEquation(source, C0, C0, complex(Fin(2), Fin(0))))

\* the outcome of the test call of compileInterior, from its raw result
checkedInterior(test) ==
  IF test.t = "throw" THEN [fn |-> FALSE, error |-> test.msg]
  ELSE IF ~isRgbLike(test)
    THEN [fn |-> FALSE, error |-> "Interior function must return { r, g, b }."]
  ELSE [fn |-> TRUE, error |-> ""]

\* compileInterior: as compileEquation, with a test orbit of length 1
compileInterior(source) ==
  IF ConstructError(source) # ""
    THEN [fn |-> FALSE, error |-> ConstructError(source)]
    ELSE checkedInterior(RunInterior(source, 1))

\* ------------------------------------------------------------ the payloads
\* FractalRenderPayload as the control surface posts it.  rotation is 0 in
\* every payload of the model (Math.cos(0) = 1, Math.sin(0) = 0).
Cx(re, im) == complex(Fin(re), Fin(im))

BasePayload ==
  [width |-> 2, height |-> 1, center |-> Cx(0, 0), scale |-> 4,
   maxIterations |-> 1, planeVariable |-> "c",
   manualValues |-> [z |-> Cx(0, 0), c |-> Cx(0, 0), exponent |-> Cx(2, 0)],
   renderMode |-> "escape",
   equationSource |-> defaultEquationSource,
   interiorSource |-> defaultInteriorSource,
   exteriorSource |-> defaultExteriorSource]

\* what the user changes on the base payload, one thing at a time
WithHeight(h) == [BasePayload EXCEPT !.height = h, !.maxIterations = 2]

Tall == WithHeight(MaxHeight)

\* the payloads the control surface posts in the model
Payloads ==
  {WithHeight(h) : h \in 1..MaxHeight}
  \cup {[Tall EXCEPT !.equationSource = e] :
          e \in {SpacedDefaultEquation, ShapeErrorEquation, ThrowingEquation}}
  \cup {[Tall EXCEPT !.equationSource = FEATHER_EQUATION_SOURCE, !.scale = 20]}
  \cup {[Tall EXCEPT !.interiorSource = i] : i \in {ShapeErrorInterior, NullInterior}}
  \cup {[Tall EXCEPT !.equationSource = ShapeErrorEquation,
                     !.interiorSource = NullInterior]}
  \cup {[Tall EXCEPT !.exteriorSource = CustomExterior]}
  \cup {[Tall EXCEPT !.equationSource = HandlerEquation]}
  \cup {[Tall EXCEPT !.center = Cx(5, 0), !.scale = 20,
                     !.maxIterations = MAX_SHADER_ITERATIONS + 1]}

\* the default equation at 120 iterations on a 2 x 1 frame centred at (2,3):
\* the plane coordinates of its pixels are (0,2) and (2,2)
EscapingPayload ==
  [BasePayload EXCEPT !.center = Cx(2, 3), !.maxIterations = 120]

\* the payloads the kernel is sampled on
KernelSized == {[BasePayload EXCEPT !.height = h, !.maxIterations = m] :
                  h \in 1..MaxHeight, m \in 1..MaxIter}

KernelPayloads ==
  KernelSized
  \cup {[p EXCEPT !.equationSource = e] :
          p \in KernelSized,
          e \in {ShapeErrorEquation, SyntaxErrorEquation, ThrowingEquation,
                 UndefinedEquation, ThrowStringEquation}}
  \cup {[p EXCEPT !.equationSource = e, !.manualValues.z = z] :
          p \in KernelSized,
          e \in {defaultEquationSource, InfinityEquation, ShapeErrorEquation},
          z \in {Cx(1, 0), complex(PosInf, Fin(0))}}
  \cup {[p EXCEPT !.equationSource = FEATHER_EQUATION_SOURCE, !.scale = 20] :
          p \in KernelSized}
  \cup {[p EXCEPT !.renderMode = "soft"] : p \in KernelSized}
  \cup {[p EXCEPT !.renderMode = "soft", !.equationSource = FEATHER_EQUATION_SOURCE,
                  !.scale = 20] : p \in KernelSized}
  \cup {[p EXCEPT !.interiorSource = i] :
          p \in KernelSized,
          i \in {ShapeErrorInterior, NullInterior, ThrowStringInterior}}
  \cup {EscapingPayload}

\* --------------------------------------------------- the scalar kernel
\* the band height without its minimum of 2 rows
rowsPerChunk_NoMinimum(height) == IF height \div 180 > 1 THEN height \div 180 ELSE 1

\* Math.max(2, Math.floor(height / 180))
rowsPerChunk(height) == IF height \div 180 > 2 THEN height \div 180 ELSE 2

escapeRadius == 16

\* the plane coordinate of pixel (x, actualY): unit = scale / width is an
\* even integer in every payload, so (x - width/2) * unit is an integer
planeValue(p, x, actualY) ==
  LET unit == p.scale \div p.width
      dx == ((2 * x - p.width) * unit) \div 2
      dy == ((2 * actualY - p.height) * unit) \div 2
      cosRotation == 1
      sinRotation == 0
      rotatedReal == dx * cosRotation - dy * sinRotation
      rotatedImag == dx * sinRotation + dy * cosRotation
  IN  complex(FAdd(p.center.re, Fin(rotatedReal)), FAdd(p.center.im, Fin(rotatedImag)))

\* a raw value with a non-finite component
RawNonFinite(raw) ==
  raw.t = "complex" /\ (~NumberIsFinite(raw.val.re) \/ ~NumberIsFinite(raw.val.im))

\* the compiled wrapper (z, c, exponent) => sanitizeComplex(fn(...)), from
\* the raw result of fn; raw is kept beside the value
wrapped(raw) ==
  IF raw.t = "throw" THEN [threw |-> TRUE, val |-> C0, raw |-> raw]
  ELSE [threw |-> FALSE, val |-> sanitizeComplex(raw), raw |-> raw]

unwrapped(v) == [threw |-> FALSE, val |-> v, raw |-> Raw("complex", v, "")]

\* one call of the evaluator: fn ?? fallbackEvaluator
evaluator(p, fn, z, c, exponent) ==
  IF fn THEN wrapped(RunEquation(p.equationSource, z, c, exponent))
  ELSE unwrapped(fallbackEvaluator(z, c, exponent))

\* the iteration loop of one pixel, from iteration iter on, with the escape
\* test z.re*z.re + z.im*z.im > radius.  The result is the loop's exit state:
\* iter, orbitLength, whether the evaluator threw; rawNonFinite records that
\* the equation returned a non-finite component at some step.
RECURSIVE iterationLoop(_, _, _, _, _, _, _, _, _)

\* the body of the loop after the call r of the evaluator
loopBody(p, fn, radius, c, exponent, iter, orbitLength, seen, r) ==
  IF r.threw
    THEN [threw |-> TRUE, iter |-> iter, orbitLength |-> orbitLength,
          rawNonFinite |-> seen \/ RawNonFinite(r.raw)]
  ELSE IF ~NumberIsFinite(r.val.re) \/ ~NumberIsFinite(r.val.im)
    THEN [threw |-> FALSE, iter |-> p.maxIterations,
          orbitLength |-> orbitLength + 1,
          rawNonFinite |-> seen \/ RawNonFinite(r.raw)]
  ELSE IF FGt(FAdd(FMul(r.val.re, r.val.re), FMul(r.val.im, r.val.im)), radius)
    THEN [threw |-> FALSE, iter |-> iter, orbitLength |-> orbitLength + 1,
          rawNonFinite |-> seen \/ RawNonFinite(r.raw)]
  ELSE iterationLoop(p, fn, radius, r.val, c, exponent, iter + 1,
                     orbitLength + 1, seen \/ RawNonFinite(r.raw))

iterationLoop(p, fn, radius, z, c, exponent, iter, orbitLength, seen) ==
  IF iter >= p.maxIterations
    THEN [threw |-> FALSE, iter |-> iter, orbitLength |-> orbitLength,
          rawNonFinite |-> seen]
    ELSE loopBody(p, fn, radius, c, exponent, iter, orbitLength, seen,
                  evaluator(p, fn, z, c, exponent))

\* cValue, exponentValue and startZValue of a pixel whose plane coordinate
\* is pv
startValues(p, pv) ==
  [c |-> IF p.planeVariable = "c" THEN pv ELSE p.manualValues.c,
   exponent |-> IF p.planeVariable = "exponent" THEN pv ELSE p.manualValues.exponent,
   z |-> IF p.planeVariable = "z" THEN pv ELSE p.manualValues.z]

\* the start values of a pixel whose plane coordinate is pv, then its loop
loopFrom(p, fn, radius, pv) ==
  iterationLoop(p, fn, radius, startValues(p, pv).z, startValues(p, pv).c,
                startValues(p, pv).exponent, 0, 0, FALSE)

\* the loop of pixel (x, actualY)
pixelLoop(p, fn, radius, x, actualY) ==
  loopFrom(p, fn, radius, planeValue(p, x, actualY))

\* a pixel of the buffer: threw is TRUE when an exception ended its
\* computation; iter and orbitLength are the loop's exit values; by is
\* "interior" when the interior mapper coloured it, "palette" when the
\* colorizer did, with shade = num / den
Pixel(threw, by, num, den, l) ==
  [threw |-> threw, iter |-> l.iter, by |-> by, rawNonFinite |-> l.rawNonFinite,
   orbitLength |-> l.orbitLength, shade |-> [num |-> num, den |-> den]]

\* the colouring with the interior mapper chosen one iteration early
colourPixel_OffByOne(p, interiorFn, l) ==
  IF l.threw
    THEN Pixel(TRUE, "none", 0, 1, l)
  ELSE IF l.iter >= p.maxIterations - 1 /\ interiorFn
    THEN IF RunInterior(p.interiorSource, l.orbitLength).t
              \in {"throw", "null", "undefined"}
           THEN Pixel(TRUE, "none", 0, 1, l)
           ELSE Pixel(FALSE, "interior", 0, 1, l)
    ELSE Pixel(FALSE, "palette", l.iter, p.maxIterations, l)

\* the colouring of a pixel whose loop ended in l.
\* sanitizeRgb(fn(orbit)) reads value.r: a null or undefined value throws.
colourPixel(p, interiorFn, l) ==
  IF l.threw
    THEN Pixel(TRUE, "none", 0, 1, l)
  ELSE IF l.iter = p.maxIterations /\ interiorFn
    THEN IF RunInterior(p.interiorSource, l.orbitLength).t
              \in {"throw", "null", "undefined"}
           THEN Pixel(TRUE, "none", 0, 1, l)
           ELSE Pixel(FALSE, "interior", 0, 1, l)
    ELSE Pixel(FALSE, "palette", l.iter, p.maxIterations, l)

\* a pixel whose loop compares the squared magnitude with 16 * 16
renderPixel_SquaredRadius(p, fn, interiorFn, x, actualY) ==
  colourPixel(p, interiorFn,
              pixelLoop(p, fn, escapeRadius * escapeRadius, x, actualY))

\* one pixel of the buffer: the loop, then the colouring
renderPixel(p, fn, interiorFn, x, actualY) ==
  colourPixel(p, interiorFn, pixelLoop(p, fn, escapeRadius, x, actualY))

\* the pixels of the band of `rows` rows at startY, row by row
renderBand(p, fn, interiorFn, startY, rows) ==
  [i \in 1..(rows * p.width) |->
     renderPixel(p, fn, interiorFn, (i - 1) % p.width, startY + (i - 1) \div p.width)]

\* Math.min returning its first argument
Min_First(a, b) == a

Min(a, b) == IF a < b THEN a ELSE b

\* ------------------------------------------------- the fragment shader
ESCAPE_RADIUS == 16

\* main(): the plane coordinate of the fragment of canvas pixel (x, actualY).
\* gl_FragCoord is the centre of the fragment, (x + 0.5, height - actualY - 0.5),
\* so canvasY = actualY + 0.5 and dx = (x + 0.5 - width/2) * unit
fragmentPlaneValue(p, x, actualY) ==
  LET uScale == p.scale \div p.width
      dx == ((2 * x + 1 - p.width) * uScale) \div 2
      dy == ((2 * actualY + 1 - p.height) * uScale) \div 2
      cosR == 1
      sinR == 0
  IN  complex(FAdd(p.center.re, Fin(dx * cosR - dy * sinR)),
              FAdd(p.center.im, Fin(dx * sinR + dy * cosR)))

\* complexPow: the polar form, whose value for a real integer exponent is
\* the integer power (taken exactly; the rounding of the floats is left out)
complexPow(z, exponent) ==
  IF HypotIsZero(z) THEN C0
  ELSE IF FIsZero(exponent.im) /\ exponent.re.k = "fin"
          /\ exponent.re.v <= 32 /\ exponent.re.v >= -32
    THEN powInt(z, exponent.re.v)
    ELSE complex(Unrep, Unrep)

\* iterateEquation: mode 1 is the feather equation, any other the default
iterateEquation(currentZ, cValue, exponentValue, mode) ==
  IF mode = 1
    THEN LET numerator == complexPow(currentZ, complex(Fin(3), Fin(0)))
             denom == FAdd(Fin(1), FAdd(FMul(currentZ.re, currentZ.re),
                                        FMul(currentZ.im, currentZ.im)))
         IN  add(complex(FDiv(numerator.re, denom), FDiv(numerator.im, denom)),
                 cValue)
    ELSE add(complexPow(currentZ, exponentValue), cValue)

\* the loop of main() from step i on: there is no test of finiteness, and
\* the escape test is dot(z, z) > ESCAPE_RADIUS * ESCAPE_RADIUS
RECURSIVE fragmentLoop(_, _, _, _, _, _, _)
fragmentLoop(p, mode, z, cValue, exponentValue, i, orbitCount) ==
  IF i >= p.maxIterations
    THEN [iter |-> i, orbitCount |-> orbitCount]
    ELSE LET next == iterateEquation(z, cValue, exponentValue, mode) IN
         IF FGt(FAdd(FMul(next.re, next.re), FMul(next.im, next.im)),
                ESCAPE_RADIUS * ESCAPE_RADIUS)
           THEN [iter |-> i, orbitCount |-> orbitCount + 1]
           ELSE fragmentLoop(p, mode, next, cValue, exponentValue, i + 1,
                             orbitCount + 1)

\* planeVariableToIndex with the indices of c and z exchanged
planeVariableToIndex_Swapped(variable) ==
  IF variable = "c" THEN 1 ELSE IF variable = "z" THEN 0 ELSE 2

\* the uniform uPlaneVariable of a payload
planeVariableToIndex(variable) ==
  IF variable = "c" THEN 0 ELSE IF variable = "z" THEN 1 ELSE 2

\* main(): cValue, exponentValue and zValue start as the manual uniforms,
\* and the one uPlaneVariable names is replaced by planeValue
fragmentStartValues(p, pv) ==
  LET uPlaneVariable == planeVariableToIndex(p.planeVariable) IN
  [c |-> IF uPlaneVariable = 0 THEN pv ELSE p.manualValues.c,
   exponent |-> IF uPlaneVariable # 0 /\ uPlaneVariable # 1 /\ uPlaneVariable = 2
                  THEN pv ELSE p.manualValues.exponent,
   z |-> IF uPlaneVariable # 0 /\ uPlaneVariable = 1 THEN pv ELSE p.manualValues.z]

\* the fragment of canvas pixel (x, actualY): the built-in interior colour
\* when iter >= uMaxIterations, else colorize(iter / uMaxIterations)
fragment(p, x, actualY) ==
  LET pv == fragmentPlaneValue(p, x, actualY)
      l == fragmentLoop(p, getEquationMode(normalizeEquation(p.equationSource)),
                        fragmentStartValues(p, pv).z, fragmentStartValues(p, pv).c,
                        fragmentStartValues(p, pv).exponent, 0, 0)
  IN  IF l.iter >= p.maxIterations
        THEN [taken |-> TRUE, iter |-> l.iter, by |-> "interior",
              shade |-> [num |-> 0, den |-> 1]]
        ELSE [taken |-> TRUE, iter |-> l.iter, by |-> "palette",
              shade |-> [num |-> l.iter, den |-> p.maxIterations]]

\* ------------------------------------------ enclosures of double values
\* A value that is not an integer is modelled by an enclosure [lo, hi] in
\* units of 1/Resolution: the double lies between lo/Resolution and
\* hi/Resolution.  The grid points are doubles and rounding to nearest is
\* monotone, so the rounded result of an operation lies in the enclosure of
\* its exact result, rounded outward to the grid.
Iv(lo, hi) == [lo |-> lo, hi |-> hi]

\* the enclosure of the integer n
IvInt(n) == Iv(n * Resolution, n * Resolution)

\* a + b and a * b on enclosures (\div rounds down)
IvAdd(a, b) == Iv(a.lo + b.lo, a.hi + b.hi)
IvMul(a, b) ==
  LET products == {a.lo * b.lo, a.lo * b.hi, a.hi * b.lo, a.hi * b.hi}
      least == CHOOSE m \in products : \A o \in products : m <= o
      most == CHOOSE m \in products : \A o \in products : m >= o
  IN  Iv(least \div Resolution, -((-most) \div Resolution))

\* createOps: add and mul on enclosures
IvComplexAdd(a, b) == complex(IvAdd(a.re, b.re), IvAdd(a.im, b.im))
IvComplexMul(a, b) ==
  LET rr == IvMul(a.re, b.re)
      ii == IvMul(a.im, b.im)
  IN  complex(Iv(rr.lo - ii.hi, rr.hi - ii.lo),
              IvAdd(IvMul(a.re, b.im), IvMul(a.im, b.re)))

\* powInt for a positive exponent: the loop of squarings (the squaring of
\* the last round, whose value is not used, is left out)
RECURSIVE IvPowLoop(_, _, _)
IvPowLoop(result, current, expValue) ==
  IF expValue > 0
    THEN IvPowLoop(IF expValue % 2 = 1 THEN IvComplexMul(result, current) ELSE result,
                   IF expValue > 1 THEN IvComplexMul(current, current) ELSE current,
                   expValue \div 2)
    ELSE result

\* the equation ops.add(z, c), without the power
IvEvaluator_NoPower(z, c, n) == IvComplexAdd(z, c)

\* the default equation ops.add(ops.pow(z, exponent), c) for an exponent n
\* in 1..32 (pow returns 0 for z = 0, which the product encloses)
IvEvaluator(z, c, n) ==
  IvComplexAdd(IvPowLoop(complex(IvInt(1), IvInt(0)), z, n), c)

\* the possible outcomes of the test z.re * z.re + z.im * z.im > escapeRadius
IvEscapes(z) ==
  LET m == IvAdd(IvMul(z.re, z.re), IvMul(z.im, z.im)) IN
  IF m.lo > escapeRadius * Resolution THEN {TRUE}
  ELSE IF m.hi <= escapeRadius * Resolution THEN {FALSE}
  ELSE BOOLEAN

\* the plane coordinate of pixel (x, actualY) for a payload whose
\* unit = scale / width is not an integer
IvPlaneValue(p, x, actualY) ==
  LET dx == (2 * x - p.width) * p.scale * Resolution
      dy == (2 * actualY - p.height) * p.scale * Resolution
      d == 2 * p.width
  IN  complex(IvAdd(IvInt(p.center.re.v), Iv(dx \div d, -((-dx) \div d))),
              IvAdd(IvInt(p.center.im.v), Iv(dy \div d, -((-dy) \div d))))

\* ---------------------------------------------------------------- state
VARIABLES
  hasOffscreenCanvas, \* typeof OffscreenCanvas !== "undefined" in the worker
  inputs,             \* page: the React state a payload is built from
  errs,               \* page: equationError, interiorError ("" is null)
  requestIdRef,       \* page: requestIdRef.current
  listener,           \* page: requestId of the registered handleMessage, 0 if none
  isRendering,        \* page: isRendering
  applied,            \* page: the draws made on the canvas, in order
  submitted,          \* the payloads posted to the worker, by request id; when
                      \* the worker was between two bands of a scalar render
                      \* then, `during` is the id of that render and `emitted`
                      \* the rows it had emitted (else both are 0)
  inbox,              \* render requests posted and not yet handled
  outbox,             \* responses posted and not yet delivered to the page
  activeRequestId,    \* worker: activeRequestId
  glState,            \* worker: glState (NoGlState for null)
  pc,                 \* worker: "idle", "webgl" or "cpu"
  request,            \* worker: event.data of the handler that is running
  startY,             \* worker: startY of the band loop
  evaluatorFn,        \* worker: compileEquation(...).fn is non-null
  interiorFn,         \* worker: compileInterior(...).fn is non-null
  posted,             \* worker: every response posted, in order
  consoleErrors,      \* worker: ids whose WebGL failure was logged
  uncaught,           \* worker: ids whose handler ended with an exception
  onmessage,          \* worker: ctx.onmessage is the handler the worker set
  sample              \* kernel: the pixel last computed, with its inputs, or
                      \* the call of a compiled function last made

vars == <<hasOffscreenCanvas, inputs, errs, requestIdRef, listener, isRendering,
          applied, submitted, inbox, outbox, activeRequestId, glState, pc, request,
          startY, evaluatorFn, interiorFn, posted, consoleErrors, uncaught,
          onmessage, sample>>

systemVars == <<hasOffscreenCanvas, inputs, errs, requestIdRef, listener, isRendering,
                applied, submitted, inbox, outbox, activeRequestId, glState, pc,
                request, startY, evaluatorFn, interiorFn, posted, consoleErrors,
                uncaught, onmessage>>

pageVars == <<inputs, errs, requestIdRef, listener, isRendering, applied, submitted>>
workerVars == <<activeRequestId, glState, pc, request, startY, evaluatorFn,
                interiorFn, posted, consoleErrors, uncaught, onmessage>>

\* a response; the buffer of a chunk is renderBand of its payload, startY and
\* rows, and is not stored
Message(id, type, y, rows) ==
  [id |-> id, type |-> type, startY |-> y, rows |-> rows]

NoRequest == [id |-> 0, payload |-> BasePayload]

NoPixel == [threw |-> FALSE, iter |-> 0, by |-> "none", rawNonFinite |-> FALSE,
            orbitLength |-> 0, shade |-> [num |-> 0, den |-> 1]]
\* no call of a compiled evaluator, no call of a compiled interior mapper
NoCall == [taken |-> FALSE, raw |-> Raw("undefined", C0, ""), threw |-> FALSE,
           value |-> C0]
NoColour == [taken |-> FALSE, raw |-> Raw("undefined", C0, ""), threw |-> FALSE,
             value |-> Rgb(Fin(0), Fin(0), Fin(0))]

\* no fragment of the shader
NoFragment == [taken |-> FALSE, iter |-> 0, by |-> "none",
               shade |-> [num |-> 0, den |-> 1]]

\* no orbit followed step by step
NoOrbit == [taken |-> FALSE, iter |-> 0, orbitLength |-> 0,
            z |-> complex(IvInt(0), IvInt(0)), c |-> complex(IvInt(0), IvInt(0)),
            done |-> FALSE, escaped |-> FALSE]

NoSample == [taken |-> FALSE, payload |-> BasePayload, x |-> 0, y |-> 0,
             pixel |-> NoPixel, call |-> NoCall, colour |-> NoColour,
             fragment |-> NoFragment, orbit |-> NoOrbit,
             op |-> [name |-> "none", a |-> C0, b |-> C0, value |-> C0]]

\* something has been sampled
Sampled ==
  \/ sample.taken \/ sample.call.taken \/ sample.colour.taken
  \/ sample.orbit.taken \/ sample.op.name # "none"

\* glState while it is null: no context, no canvas
NoGlState == [context |-> 0, width |-> 0, height |-> 0]

\* the canvas has no size before the first layout
Init ==
  /\ hasOffscreenCanvas \in BOOLEAN
  /\ inputs = [BasePayload EXCEPT !.width = 0, !.height = 0, !.maxIterations = 120]
  /\ errs = [equationError |-> "", interiorError |-> ""]
  /\ requestIdRef = 0
  /\ listener = 0
  /\ isRendering = FALSE
  /\ applied = <<>>
  /\ submitted = <<>>
  /\ inbox = <<>>
  /\ outbox = <<>>
  /\ activeRequestId = 0
  /\ glState = NoGlState
  /\ pc = "idle"
  /\ request = NoRequest
  /\ startY = 0
  /\ evaluatorFn = FALSE
  /\ interiorFn = FALSE
  /\ posted = <<>>
  /\ consoleErrors = <<>>
  /\ uncaught = <<>>
  /\ onmessage = TRUE
  /\ sample = NoSample

\* ------------------------------------------------------ the control surface
\* the compile effects: the error state each input text leads to
compileEffects(p) ==
  [equationError |->
     IF compileEquation(p.equationSource).fn THEN ""
     ELSE IF compileEquation(p.equationSource).error \in {"", Undefined}
       THEN "Failed to compile equation."
       ELSE compileEquation(p.equationSource).error,
   interiorError |->
     IF compileInterior(p.interiorSource).fn THEN ""
     ELSE IF compileInterior(p.interiorSource).error \in {"", Undefined}
       THEN "Failed to compile interior function."
       ELSE compileInterior(p.interiorSource).error]

\* does the render effect post a request, run with payload p and errors e.
\* exteriorError is null throughout: the exterior texts of the model compile.
effectPosts(p, e) ==
  /\ p.width # 0 /\ p.height # 0
  /\ e.equationError = "" /\ e.interiorError = ""

\* the render effect posting the id it read before the increment
renderEffect_StaleId(p, e) ==
  IF p.width = 0 \/ p.height = 0
    THEN /\ listener' = 0
         /\ UNCHANGED <<requestIdRef, isRendering, submitted, inbox>>
  ELSE IF e.equationError # "" \/ e.interiorError # ""
    THEN /\ listener' = 0
         /\ isRendering' = FALSE
         /\ UNCHANGED <<requestIdRef, submitted, inbox>>
  ELSE /\ requestIdRef' = requestIdRef + 1
       /\ listener' = requestIdRef + 1
       /\ isRendering' = TRUE
       /\ submitted' = Append(submitted,
                              IF pc = "cpu" /\ startY > 0 /\ startY < request.payload.height
                                THEN [payload |-> p, during |-> request.id,
                                      emitted |-> startY]
                                ELSE [payload |-> p, during |-> 0, emitted |-> 0])
       /\ inbox' = Append(inbox, [id |-> requestIdRef, payload |-> p])

\* the render effect: the cleanup of the previous run removes its listener;
\* then the guards, then the new listener and the request
renderEffect(p, e) ==
  IF p.width = 0 \/ p.height = 0
    THEN /\ listener' = 0
         /\ UNCHANGED <<requestIdRef, isRendering, submitted, inbox>>
  ELSE IF e.equationError # "" \/ e.interiorError # ""
    THEN /\ listener' = 0
         /\ isRendering' = FALSE
         /\ UNCHANGED <<requestIdRef, submitted, inbox>>
  ELSE /\ requestIdRef' = requestIdRef + 1
       /\ listener' = requestIdRef + 1
       /\ isRendering' = TRUE
       /\ submitted' = Append(submitted,
                              IF pc = "cpu" /\ startY > 0 /\ startY < request.payload.height
                                THEN [payload |-> p, during |-> request.id,
                                      emitted |-> startY]
                                ELSE [payload |-> p, during |-> 0, emitted |-> 0])
       /\ inbox' = Append(inbox, [id |-> requestIdRef + 1, payload |-> p])

\* the user changes a parameter or a text: the effects that depend on it run
\* in the same commit, the render effect with the error state of the
\* previous render
PageChange(p) ==
  /\ p # inputs
  /\ effectPosts(p, errs) => requestIdRef < MaxRequests
  /\ inputs' = p
  /\ renderEffect(p, errs)
  /\ UNCHANGED <<errs, applied, outbox, hasOffscreenCanvas>>
  /\ UNCHANGED sample
  /\ UNCHANGED workerVars

\* ------------------------------------------------ the iteration controls
MIN_ITERATIONS == 1
MAX_ITERATIONS == 1000

\* the canvas is measured: canvasSize becomes the size of the frame
CanvasResize ==
  PageChange([inputs EXCEPT !.width = BasePayload.width, !.height = BasePayload.height])

\* the updater of the ',' hotkey: the values it can return for prev.
\* ITERATION_HOTKEY_FACTOR is the double next to 1.1, a little above 11/10:
\* the quotient prev / 1.1 is a little below 10 * prev / 11 before it is
\* rounded to a double, so where 11 divides prev its floor is 10 * prev / 11
\* or one less
commaUpdater(prev) ==
  IF prev <= MIN_ITERATIONS THEN {MIN_ITERATIONS}
  ELSE {IF (IF next >= prev THEN prev - 1 ELSE next) > MIN_ITERATIONS
          THEN (IF next >= prev THEN prev - 1 ELSE next)
          ELSE MIN_ITERATIONS :
        next \in {(10 * prev) \div 11} \cup
                 (IF prev % 11 = 0 THEN {(10 * prev) \div 11 - 1} ELSE {})}

\* the ',' hotkey
HotkeyComma ==
  \E value \in commaUpdater(inputs.maxIterations) :
    PageChange([inputs EXCEPT !.maxIterations = value])

\* the '.' hotkey without the upper limit
HotkeyPeriod_NoLimit ==
  \E next \in {(11 * inputs.maxIterations + 9) \div 10} \cup
               (IF inputs.maxIterations % 10 = 0
                  THEN {(11 * inputs.maxIterations) \div 10 + 1} ELSE {}) :
    PageChange([inputs EXCEPT !.maxIterations = IF next <= @ THEN @ + 1 ELSE next])

\* the updater of the '.' hotkey with Math.floor for Math.ceil and without
\* the step of 1 for a product that does not exceed prev
periodUpdater_Floor(prev) ==
  IF prev >= MAX_ITERATIONS THEN {MAX_ITERATIONS}
  ELSE {Min(MAX_ITERATIONS, (11 * prev) \div 10)}

\* the updater of the '.' hotkey: the values it can return for prev.  The
\* product prev * 1.1 is a little above 11 * prev / 10 before it is rounded
\* to a double, so where 10 divides prev its ceiling is 11 * prev / 10 or
\* one more
periodUpdater(prev) ==
  IF prev >= MAX_ITERATIONS THEN {MAX_ITERATIONS}
  ELSE {Min(MAX_ITERATIONS, IF next <= prev THEN prev + 1 ELSE next) :
        next \in {(11 * prev + 9) \div 10} \cup
                 (IF prev % 10 = 0 THEN {(11 * prev) \div 10 + 1} ELSE {})}

\* the '.' hotkey
HotkeyPeriod ==
  \E value \in periodUpdater(inputs.maxIterations) :
    PageChange([inputs EXCEPT !.maxIterations = value])

\* the iterations slider is moved to value, an integer from min to max of
\* the range input
IterationSlider(value) ==
  PageChange([inputs EXCEPT !.maxIterations =
    IF Min(MAX_ITERATIONS, value) > MIN_ITERATIONS
      THEN Min(MAX_ITERATIONS, value) ELSE MIN_ITERATIONS])

\* resetExplorer; the preset applied is the one whose equation, plane
\* variable, manual values, centre and scale are in use
resetExplorer ==
  PageChange([inputs EXCEPT !.maxIterations = 120,
                            !.interiorSource = defaultInteriorSource,
                            !.renderMode = "escape",
                            !.exteriorSource = defaultExteriorSource])

\* the slider positions tried: every position while the canvas is not
\* measured (no request is posted), three once every change posts a request
ControlNext ==
  \/ CanvasResize
  \/ HotkeyComma
  \/ HotkeyPeriod
  \/ \E value \in (IF inputs.width = 0 THEN MIN_ITERATIONS..MAX_ITERATIONS
                    ELSE {MIN_ITERATIONS, MAX_ITERATIONS \div 2, MAX_ITERATIONS}) :
       IterationSlider(value)
  \/ resetExplorer

ControlSpec == Init /\ [][ControlNext]_vars

\* the state updates of the compile effects take effect: the component
\* renders again and the render effect runs with the new error state
PageCompiled ==
  /\ \E e \in {compileEffects(inputs)} :
       /\ errs # e
       /\ effectPosts(inputs, e) => requestIdRef < MaxRequests
       /\ errs' = e
       /\ renderEffect(inputs, e)
  /\ UNCHANGED <<inputs, applied, outbox, hasOffscreenCanvas>>
  /\ UNCHANGED sample
  /\ UNCHANGED workerVars

\* handleMessage without the test of data.id against requestId
handleMessage_NoIdTest(data) ==
  IF listener = 0
    THEN UNCHANGED <<applied, isRendering>>
  ELSE IF data.type = "bitmap"
    THEN /\ applied' = Append(applied, [id |-> data.id, type |-> "bitmap",
                                        startY |-> 0])
         /\ isRendering' = FALSE
  ELSE IF data.type = "chunk"
    THEN /\ applied' = Append(applied, [id |-> data.id, type |-> "chunk",
                                        startY |-> data.startY])
         /\ UNCHANGED isRendering
  ELSE /\ isRendering' = FALSE
       /\ UNCHANGED applied

\* handleMessage of the registered listener on the next response
handleMessage(data) ==
  IF listener = 0 \/ data.id # listener
    THEN UNCHANGED <<applied, isRendering>>
  ELSE IF data.type = "bitmap"
    THEN /\ applied' = Append(applied, [id |-> data.id, type |-> "bitmap",
                                        startY |-> 0])
         /\ isRendering' = FALSE
  ELSE IF data.type = "chunk"
    THEN /\ applied' = Append(applied, [id |-> data.id, type |-> "chunk",
                                        startY |-> data.startY])
         /\ UNCHANGED isRendering
  ELSE /\ isRendering' = FALSE
       /\ UNCHANGED applied

PageOnMessage ==
  /\ outbox # <<>>
  /\ handleMessage(Head(outbox))
  /\ outbox' = Tail(outbox)
  /\ UNCHANGED <<inputs, errs, requestIdRef, listener, submitted, inbox,
                 hasOffscreenCanvas>>
  /\ UNCHANGED sample
  /\ UNCHANGED workerVars

\* --------------------------------------------------------------- the worker
postMessage(m) ==
  /\ posted' = Append(posted, m)
  /\ outbox' = Append(outbox, m)

useWebGL(payload) ==
  /\ hasOffscreenCanvas
  /\ getEquationMode(normalizeEquation(payload.equationSource)) # -1
  /\ normalizeInterior(payload.interiorSource) = DEFAULT_INTERIOR_NORMALIZED
  /\ payload.maxIterations <= MAX_SHADER_ITERATIONS

\* renderWithCpu that takes the compiled functions for non-null
startCpu_NoFallback(payload) ==
  /\ pc' = "cpu"
  /\ startY' = 0
  /\ evaluatorFn' = TRUE
  /\ interiorFn' = TRUE
  /\ onmessage' = (onmessage /\ ~AssignsOnmessage(payload.equationSource))

\* the head of renderWithCpu: the two compilations, then the band loop starts.
\* The test call of compileEquation runs the user's text in the worker.
startCpu(payload) ==
  /\ pc' = "cpu"
  /\ startY' = 0
  /\ evaluatorFn' = compileEquation(payload.equationSource).fn
  /\ interiorFn' = compileInterior(payload.interiorSource).fn
  /\ onmessage' = (onmessage /\ ~AssignsOnmessage(payload.equationSource))

\* ctx.onmessage that does not record the id of the request it handles
OnMessage_StaleActiveId ==
  /\ pc = "idle"
  /\ onmessage
  /\ inbox # <<>>
  /\ LET data == Head(inbox) IN
       /\ inbox' = Tail(inbox)
       /\ request' = data
       /\ UNCHANGED activeRequestId
       /\ IF useWebGL(data.payload)
            THEN /\ pc' = "webgl"
                 /\ UNCHANGED <<startY, evaluatorFn, interiorFn, onmessage>>
            ELSE startCpu(data.payload)
  /\ UNCHANGED <<glState, posted, outbox, consoleErrors, uncaught,
                 hasOffscreenCanvas>>
  /\ UNCHANGED sample
  /\ UNCHANGED pageVars

\* ctx.onmessage up to the choice of the backend
OnMessage ==
  /\ pc = "idle"
  /\ onmessage
  /\ inbox # <<>>
  /\ LET data == Head(inbox) IN
       /\ inbox' = Tail(inbox)
       /\ request' = data
       /\ activeRequestId' = data.id
       /\ IF useWebGL(data.payload)
            THEN /\ pc' = "webgl"
                 /\ UNCHANGED <<startY, evaluatorFn, interiorFn, onmessage>>
            ELSE startCpu(data.payload)
  /\ UNCHANGED <<glState, posted, outbox, consoleErrors, uncaught,
                 hasOffscreenCanvas>>
  /\ UNCHANGED sample
  /\ UNCHANGED pageVars

\* ensureGlState creating a context at every call
ensureGlState_Recreate(width, height) ==
  [context |-> glState.context + 1, width |-> width, height |-> height]

\* the value of glState after a call of ensureGlState that returns: the
\* state it holds with its canvas resized, or else a new one.  context
\* counts the contexts created so far, so it names the context in use.
ensureGlState(width, height) ==
  IF glState # NoGlState
    THEN [glState EXCEPT !.width = width, !.height = height]
    ELSE [context |-> 1, width |-> width, height |-> height]

\* renderWithWebGL in a handler that returns after the catch
RenderWithWebGL_NoFallback ==
  /\ pc = "webgl"
  /\ \E outcome \in {"bitmap", "ensureGlStateThrows", "drawThrows"} :
       \/ /\ outcome = "bitmap"
          /\ glState' = ensureGlState(request.payload.width, request.payload.height)
          /\ IF request.id # activeRequestId
               THEN UNCHANGED <<posted, outbox>>
               ELSE postMessage(Message(request.id, "bitmap", 0, 0))
          /\ UNCHANGED consoleErrors
       \/ /\ outcome = "ensureGlStateThrows"
          /\ glState = NoGlState
          /\ UNCHANGED glState
          /\ consoleErrors' = Append(consoleErrors, request.id)
          /\ UNCHANGED <<posted, outbox>>
       \/ /\ outcome = "drawThrows"
          /\ glState' = ensureGlState(request.payload.width, request.payload.height)
          /\ consoleErrors' = Append(consoleErrors, request.id)
          /\ UNCHANGED <<posted, outbox>>
  /\ pc' = "idle"
  /\ UNCHANGED <<startY, evaluatorFn, interiorFn, onmessage>>
  /\ UNCHANGED <<activeRequestId, request, uncaught, inbox, hasOffscreenCanvas>>
  /\ UNCHANGED sample
  /\ UNCHANGED pageVars

\* renderWithWebGL.  ensureGlState throws only while glState is null (context
\* creation, shader compilation, link, buffer); the calls after it (draw,
\* transferToImageBitmap, postMessage) may throw with glState set.  A throw
\* is caught by ctx.onmessage, logged, and renderWithCpu starts.
RenderWithWebGL ==
  /\ pc = "webgl"
  /\ \E outcome \in {"bitmap", "ensureGlStateThrows", "drawThrows"} :
       \/ /\ outcome = "bitmap"
          /\ glState' = ensureGlState(request.payload.width, request.payload.height)
          /\ IF request.id # activeRequestId
               THEN UNCHANGED <<posted, outbox>>
               ELSE postMessage(Message(request.id, "bitmap", 0, 0))
          /\ pc' = "idle"
          /\ UNCHANGED <<startY, evaluatorFn, interiorFn, consoleErrors, onmessage>>
       \/ /\ outcome = "ensureGlStateThrows"
          /\ glState = NoGlState
          /\ UNCHANGED glState
          /\ consoleErrors' = Append(consoleErrors, request.id)
          /\ startCpu(request.payload)
          /\ UNCHANGED <<posted, outbox>>
       \/ /\ outcome = "drawThrows"
          /\ glState' = ensureGlState(request.payload.width, request.payload.height)
          /\ consoleErrors' = Append(consoleErrors, request.id)
          /\ startCpu(request.payload)
          /\ UNCHANGED <<posted, outbox>>
  /\ UNCHANGED <<activeRequestId, request, uncaught, inbox, hasOffscreenCanvas>>
  /\ UNCHANGED sample
  /\ UNCHANGED pageVars

\* does a pixel of the band at startY throw
bandThrows(p, fn, intFn, y, rows) ==
  \E i \in 1..(rows * p.width) : renderBand(p, fn, intFn, y, rows)[i].threw

\* one turn of the band loop of renderWithCpu.  An exception of a pixel
\* leaves renderWithCpu and ctx.onmessage: nothing catches it.
RenderBand ==
  /\ pc = "cpu"
  /\ startY < request.payload.height
  /\ IF request.id # activeRequestId
       THEN /\ pc' = "idle"
            /\ UNCHANGED <<startY, posted, outbox, uncaught>>
       ELSE \E rows \in {Min(rowsPerChunk(request.payload.height),
                             request.payload.height - startY)} :
              IF bandThrows(request.payload, evaluatorFn, interiorFn, startY, rows)
                THEN /\ pc' = "idle"
                     /\ uncaught' = Append(uncaught, request.id)
                     /\ UNCHANGED <<startY, posted, outbox>>
                ELSE /\ postMessage(Message(request.id, "chunk", startY, rows))
                     /\ startY' = startY + rowsPerChunk(request.payload.height)
                     /\ UNCHANGED <<pc, uncaught>>
  /\ UNCHANGED <<activeRequestId, glState, request, evaluatorFn, interiorFn,
                 consoleErrors, inbox, hasOffscreenCanvas, onmessage>>
  /\ UNCHANGED sample
  /\ UNCHANGED pageVars

\* the end of renderWithCpu: the done response
RenderDone ==
  /\ pc = "cpu"
  /\ startY >= request.payload.height
  /\ postMessage(Message(request.id, "done", 0, 0))
  /\ pc' = "idle"
  /\ UNCHANGED <<activeRequestId, glState, request, startY, evaluatorFn, interiorFn,
                 consoleErrors, uncaught, inbox, hasOffscreenCanvas, onmessage>>
  /\ UNCHANGED sample
  /\ UNCHANGED pageVars

\* a message event in a worker whose onmessage is no longer the handler:
\* the request is lost
DiscardMessage ==
  /\ pc = "idle"
  /\ ~onmessage
  /\ inbox # <<>>
  /\ inbox' = Tail(inbox)
  /\ UNCHANGED <<activeRequestId, glState, pc, request, startY, evaluatorFn,
                 interiorFn, posted, consoleErrors, uncaught, onmessage, outbox,
                 hasOffscreenCanvas>>
  /\ UNCHANGED sample
  /\ UNCHANGED pageVars

Next ==
  \/ \E p \in Payloads : PageChange(p)
  \/ PageCompiled
  \/ PageOnMessage
  \/ OnMessage
  \/ DiscardMessage
  \/ RenderWithWebGL
  \/ RenderBand
  \/ RenderDone

Spec == Init /\ [][Next]_vars

\* ---------------------------------------------------- with fair scheduling
\* the payloads the user chooses among in LiveSpec
LivePayloads ==
  {WithHeight(1),
   [Tall EXCEPT !.equationSource = ShapeErrorEquation],
   [Tall EXCEPT !.interiorSource = NullInterior],
   [Tall EXCEPT !.equationSource = HandlerEquation]}

LiveNext ==
  \/ \E p \in LivePayloads : PageChange(p)
  \/ PageCompiled
  \/ PageOnMessage
  \/ OnMessage
  \/ DiscardMessage
  \/ RenderWithWebGL
  \/ RenderBand
  \/ RenderDone

\* The event loops of the page and of the worker run every task that is
\* ready: a queued message is delivered, a started render goes on, a state
\* update is committed.  The user is free to change nothing more.
LiveSpec ==
  /\ Init /\ [][LiveNext]_vars
  /\ WF_vars(PageCompiled) /\ WF_vars(PageOnMessage)
  /\ WF_vars(OnMessage) /\ WF_vars(DiscardMessage)
  /\ WF_vars(RenderWithWebGL) /\ WF_vars(RenderDone)
  \* WF_vars(RenderBand), with ENABLED <<RenderBand>>_vars written out
  /\ \/ []<>~(pc = "cpu" /\ startY < request.payload.height)
     \/ []<><<RenderBand>>_vars

\* ------------------------------------------------- the kernel, pixel by pixel
\* renderWithCpu's work for one pixel of one payload: the two compilations,
\* the iteration loop and the colouring
KernelPixel(p, x, y) ==
  /\ ~Sampled
  /\ sample' = [taken |-> TRUE, payload |-> p, x |-> x, y |-> y,
                pixel |-> renderPixel(p, compileEquation(p.equationSource).fn,
                                      compileInterior(p.interiorSource).fn, x, y),
                call |-> NoCall, colour |-> NoColour, fragment |-> NoFragment,
                orbit |-> NoOrbit, op |-> NoSample.op]
  /\ UNCHANGED systemVars

\* the same pixel of one payload from both paths: the fragment the shader
\* draws when renderWithWebGL serves the payload, and the pixel renderWithCpu
\* writes when the scalar path serves it
KernelFragment(p, x, y) ==
  /\ ~Sampled
  /\ useWebGL(p)
  /\ sample' = [taken |-> TRUE, payload |-> p, x |-> x, y |-> y,
                pixel |-> renderPixel(p, compileEquation(p.equationSource).fn,
                                      compileInterior(p.interiorSource).fn, x, y),
                call |-> NoCall, colour |-> NoColour,
                fragment |-> fragment(p, x, y), orbit |-> NoOrbit,
                op |-> NoSample.op]
  /\ UNCHANGED systemVars

\* the equation and interior texts whose compiled functions are called
EquationTexts ==
  {defaultEquationSource, FEATHER_EQUATION_SOURCE, SpacedDefaultEquation,
   ShapeErrorEquation, SyntaxErrorEquation, InfinityEquation, ThrowingEquation,
   UndefinedEquation, ThrowStringEquation, HandlerEquation}

InteriorTexts ==
  {ShapeErrorInterior, NullInterior, NonFiniteInterior, OutOfRangeInterior,
   ThrowStringInterior}

\* the arguments of the calls
CallValues == {Cx(0, 0), Cx(1, 0), Cx(0, 1), complex(PosInf, Fin(0)),
               complex(NaN, Fin(1))}

\* one call of the evaluator compileEquation returns for source:
\* (z, c, exponent) => sanitizeComplex(fn(z, c, exponent, ops))
KernelCall(source, z, c) ==
  /\ ~Sampled
  /\ compileEquation(source).fn
  /\ \E raw \in {RunEquation(source, z, c, complex(Fin(2), Fin(0)))} :
       sample' = [NoSample EXCEPT
                    !.payload.equationSource = source,
                    !.call = [taken |-> TRUE, raw |-> raw,
                              threw |-> raw.t = "throw",
                              value |-> IF raw.t = "throw" THEN C0
                                        ELSE sanitizeComplex(raw)]]
  /\ UNCHANGED systemVars

\* one call of the evaluator compileInterior returns for source:
\* (orbit, ops, helpers) => sanitizeRgb(fn(orbit, ops, helpers));
\* sanitizeRgb reads value.r, which throws for null and undefined
KernelColour(source, orbitLength) ==
  /\ ~Sampled
  /\ compileInterior(source).fn
  /\ \E raw \in {RunInterior(source, orbitLength)} :
       sample' = [NoSample EXCEPT
                    !.payload.interiorSource = source,
                    !.colour = [taken |-> TRUE, raw |-> raw,
                                threw |-> raw.t \in {"throw", "null", "undefined"},
                                value |-> IF raw.t = "rgb" THEN sanitizeRgb(raw.val)
                                          ELSE Rgb(Fin(0), Fin(0), Fin(0))]]
  /\ UNCHANGED systemVars

\* the payloads whose pixels are followed iteration by iteration: the
\* default equation at 120 iterations on a 2 x 2 frame of scale 1 centred at
\* (0,0), whose plane coordinates are (-0.5,-0.5), (0,-0.5), (-0.5,0), (0,0)
OrbitPayloads ==
  {[BasePayload EXCEPT !.height = 2, !.scale = 1, !.maxIterations = 120]}

\* renderWithCpu enters the iteration loop of pixel (x, y): plane variable c,
\* z starts at the manual z
OrbitStart(p, x, y) ==
  /\ ~Sampled
  /\ compileEquation(p.equationSource).fn
  /\ normalizeEquation(p.equationSource) = DEFAULT_EQUATION_NORMALIZED
  /\ p.planeVariable = "c"
  /\ sample' = [NoSample EXCEPT
                  !.payload = p, !.x = x, !.y = y,
                  !.orbit = [NoOrbit EXCEPT
                               !.taken = TRUE,
                               !.z = complex(IvInt(p.manualValues.z.re.v),
                                               IvInt(p.manualValues.z.im.v)),
                               !.c = IvPlaneValue(p, x, y)]]
  /\ UNCHANGED systemVars

\* one round of the loop: the evaluator, then the escape test; the loop ends
\* by the break or when iter reaches maxIterations (the values are bounded,
\* so the test of finiteness passes).  The square of a component of a z
\* that did not escape is at most escapeRadius, so the component is at most
\* the root of escapeRadius in magnitude.
OrbitStep ==
  /\ sample.orbit.taken
  /\ ~sample.orbit.done
  /\ LET root == CHOOSE b \in 0..escapeRadius : b * b = escapeRadius
         IvBounded(a) ==
           Iv(IF a.lo < -root * Resolution THEN -root * Resolution ELSE a.lo,
              IF a.hi > root * Resolution THEN root * Resolution ELSE a.hi)
     IN
     \E z \in {IvEvaluator(sample.orbit.z, sample.orbit.c,
                            sample.payload.manualValues.exponent.re.v)} :
     \E escapes \in IvEscapes(z) :
       sample' = [sample EXCEPT
                    !.orbit.z = complex(IvBounded(z.re), IvBounded(z.im)),
                    !.orbit.orbitLength = @ + 1,
                    !.orbit.iter = IF escapes THEN @ ELSE @ + 1,
                    !.orbit.escaped = escapes,
                    !.orbit.done = escapes
                                   \/ sample.orbit.iter + 1 >= sample.payload.maxIterations]
  /\ UNCHANGED systemVars

\* one call of ops.pow(z, n) with an integer n
KernelPow(z, n) ==
  /\ ~Sampled
  /\ sample' = [NoSample EXCEPT
                  !.op = [name |-> "pow", a |-> z, b |-> Cx(n, 0),
                          value |-> pow(z, Cx(n, 0))]]
  /\ UNCHANGED systemVars

\* one orbit classified by both kernels: the loop of renderWithCpu and the
\* loop of the fragment shader, started from the same plane coordinate pv
KernelClassify(p, pv) ==
  /\ ~Sampled
  /\ useWebGL(p)
  /\ sample' = [NoSample EXCEPT
       !.op = [name |-> "classify", a |-> pv, b |-> Cx(p.maxIterations, 0),
               value |->
                 [scalar |-> loopFrom(p, compileEquation(p.equationSource).fn,
                                      escapeRadius, pv).iter,
                  shader |-> fragmentLoop(
                               p, getEquationMode(normalizeEquation(p.equationSource)),
                               fragmentStartValues(p, pv).z,
                               fragmentStartValues(p, pv).c,
                               fragmentStartValues(p, pv).exponent, 0, 0).iter]]]
  /\ UNCHANGED systemVars

\* the plane coordinate both paths give to pixel (x, y) of one frame: a is
\* that of renderWithCpu, b that of the fragment shader
KernelPlane(p, x, y) ==
  /\ ~Sampled
  /\ sample' = [NoSample EXCEPT
       !.payload = p, !.x = x, !.y = y,
       !.op = [name |-> "planeValue", a |-> planeValue(p, x, y),
               b |-> fragmentPlaneValue(p, x, y), value |-> C0]]
  /\ UNCHANGED systemVars

\* the start values both paths give to pixel (x, y) of one frame: a is
\* (cValue, exponentValue, startZValue) of renderWithCpu, b that of the shader
KernelStart(p, x, y) ==
  /\ ~Sampled
  /\ sample' = [NoSample EXCEPT
       !.payload = p, !.x = x, !.y = y,
       !.op = [name |-> "start", a |-> startValues(p, planeValue(p, x, y)),
               b |-> fragmentStartValues(p, fragmentPlaneValue(p, x, y)),
               value |-> C0]]
  /\ UNCHANGED systemVars

\* one call of ops.div(a, b), a in units of 2^1000
KernelDiv(a, b) ==
  /\ ~Sampled
  /\ sample' = [NoSample EXCEPT
                  !.op = [name |-> "div", a |-> a, b |-> b, value |-> divDouble(a, b)]]
  /\ UNCHANGED systemVars

\* one call of hslToRgb(h, s4 / 4, l4 / 4)
KernelHsl(h, s4, l4) ==
  /\ ~Sampled
  /\ sample' = [NoSample EXCEPT
                  !.op = [name |-> "hslToRgb", a |-> <<h, s4, l4>>, b |-> C0,
                          value |-> hslToRgb(h, s4, l4)]]
  /\ UNCHANGED systemVars

\* nothing is sampled twice: every sampling action has the guard ~Sampled,
\* which is tested here before the arguments are enumerated
KernelNext ==
  \/ /\ ~Sampled
     /\ \E p \in KernelPayloads : \E x \in 0..(p.width - 1) : \E y \in 0..(p.height - 1) :
          KernelPixel(p, x, y)
  \/ /\ ~Sampled
     /\ \E source \in EquationTexts : \E z \in CallValues : \E c \in CallValues :
          KernelCall(source, z, c)
  \/ /\ ~Sampled
     /\ \E source \in InteriorTexts : \E orbitLength \in 1..MaxIter :
          KernelColour(source, orbitLength)
  \/ /\ ~Sampled
     /\ \E p \in KernelPayloads : \E x \in 0..(p.width - 1) : \E y \in 0..(p.height - 1) :
          KernelFragment(p, x, y)
  \/ /\ ~Sampled
     /\ \E p \in OrbitPayloads : \E x \in 0..(p.width - 1) : \E y \in 0..(p.height - 1) :
          OrbitStart(p, x, y)
  \/ OrbitStep
  \/ /\ ~Sampled
     /\ \E z \in {Cx(0, 0), Cx(1, 0), Cx(-1, 0), Cx(0, 1), Cx(0, -1)} :
        \E n \in -32..32 :
          KernelPow(z, n)
  \/ /\ ~Sampled
     /\ \E z \in {Cx(1, 1), Cx(-1, 1)} : \E n \in -30..32 :
          KernelPow(z, n)
  \/ /\ ~Sampled
     /\ \E a \in {Cx(re, im) : re \in {0, 1, 2^23}, im \in {0, -3, 2^23}} :
        \E b \in {Cx(re, im) : re \in {0, 1, -2}, im \in {0, 1}} :
          KernelDiv(a, b)
  \/ /\ ~Sampled
     /\ \E p \in KernelPayloads \ {EscapingPayload} : \E re \in -5..5 : \E im \in -1..1 :
          KernelClassify(p, Cx(re, im))
  \/ /\ ~Sampled
     /\ \E p \in KernelPayloads : \E x \in 0..(p.width - 1) : \E y \in 0..(p.height - 1) :
          KernelPlane(p, x, y)
  \/ /\ ~Sampled
     /\ \E v \in {"z", "c", "exponent"} :
        \E p \in {[q EXCEPT !.planeVariable = v, !.manualValues.z = Cx(1, 0)] :
                     q \in KernelSized} :
        \E x \in 0..(p.width - 1) : \E y \in 0..(p.height - 1) :
          KernelStart(p, x, y)
  \/ /\ ~Sampled
     /\ \E h \in -400..800 : \E s4 \in 0..4 : \E l4 \in 0..4 :
          KernelHsl(h, s4, l4)

KernelSpec == Init /\ [][KernelNext]_vars

TypeOK ==
  /\ pc \in {"idle", "webgl", "cpu"}
  /\ requestIdRef \in 0..MaxRequests
  /\ listener \in {0, requestIdRef}
  /\ activeRequestId \in 0..requestIdRef
  /\ Len(submitted) = requestIdRef

\* ------------------------------------------------------------ vocabulary
Terminal == {"done", "bitmap", "error"}

\* the worker has finished handling the render message id
Handled(id) == id < activeRequestId \/ (id = activeRequestId /\ pc = "idle")

\* the responses posted for id, in order
MessagesOf(id) == SelectSeq(posted, LAMBDA m : m.id = id)

PayloadOf(id) == submitted[id].payload

\* the number of bands of a frame of the given height
Bands(height) == (height + rowsPerChunk(height) - 1) \div rowsPerChunk(height)

\* the responses of a scalar render that covers every row: one chunk per
\* band, from row 0 on, then done
FullFrame(id, height) ==
  [i \in 1..(Bands(height) + 1) |->
     IF i <= Bands(height)
       THEN Message(id, "chunk", (i - 1) * rowsPerChunk(height),
                    Min(rowsPerChunk(height), height - (i - 1) * rowsPerChunk(height)))
       ELSE Message(id, "done", 0, 0)]

\* the responses already delivered to the page
Delivered == SubSeq(posted, 1, Len(posted) - Len(outbox))

\* ------------------------------------------------------------------- C1
\* C1: for every render request the worker has handled, the responses posted
\* for its id are zero or more chunks followed by exactly one terminal
\* message (done, bitmap or error), and nothing follows the terminal message.
C1_ChunksThenOneTerminal ==
  \A id \in 1..activeRequestId :
    LET ms == MessagesOf(id) IN
      /\ \A i \in 1..(Len(ms) - 1) : ms[i].type = "chunk"
      /\ Handled(id) => (Len(ms) >= 1 /\ ms[Len(ms)].type \in Terminal)

\* ------------------------------------------------------------------- C2
\* C2: when a newer request is posted to the worker after some but not all
\* bands of the scalar render of request k have been emitted, the worker
\* posts nothing more for k (no further chunk, no done).
C2_AbortOnNewerRequest ==
  \A j \in 1..Len(submitted) :
    submitted[j].during # 0 =>
      \A i \in DOMAIN posted :
        posted[i].id = submitted[j].during =>
          (posted[i].type = "chunk" /\ posted[i].startY < submitted[j].emitted)

\* ------------------------------------------------------------------- C3
\* C3: every draw on the canvas (chunk or bitmap) carries the id of the most
\* recently submitted request: after request 2 is submitted no response of
\* request 1 is drawn, whenever it is delivered.
C3_DrawsOnlyLatest ==
  [][applied' # applied => applied'[Len(applied')].id = requestIdRef']_vars

\* a response of an older request was delivered after a newer one was
\* submitted and was not drawn, and a response of the newest one was drawn
C3_Witness ==
  /\ \E i \in DOMAIN Delivered :
       /\ Delivered[i].type = "chunk"
       /\ Delivered[i].id < requestIdRef
       /\ ~\E a \in DOMAIN applied :
            applied[a].id = Delivered[i].id /\ applied[a].startY = Delivered[i].startY
  /\ \E a \in DOMAIN applied : applied[a].id = requestIdRef /\ requestIdRef >= 2

\* ------------------------------------------------------------------- C4
EquationFails(p) == ~compileEquation(p.equationSource).fn
InteriorFails(p) == ~compileInterior(p.interiorSource).fn

C5_FallbackRendersFullFrame ==
  /\ ~compileEquation(ShapeErrorEquation).fn
  /\ compileEquation(ShapeErrorEquation).error
       = "The equation must return ops.complex(...) or { re, im }."
  /\ \A id \in 1..activeRequestId :
       EquationFails(PayloadOf(id)) =>
         /\ compileEquation(PayloadOf(id).equationSource).error # ""
         /\ (id = activeRequestId /\ pc # "idle") => (pc = "cpu" /\ ~evaluatorFn)
         /\ Handled(id) => MessagesOf(id) = FullFrame(id, PayloadOf(id).height)

\* ------------------------------------------------------------------- C6
\* C6: when the WebGL path throws for a request (at context creation, shader
\* compilation, link, buffer creation, draw or bitmap transfer), the worker
\* runs the same request through the scalar path: the responses for that id
\* are the chunks of every band, in order, then done; no bitmap, no error.
C6_ScalarFallbackAfterWebGLFailure ==
  \A i \in DOMAIN consoleErrors :
    LET id == consoleErrors[i]
        ms == MessagesOf(id)
        full == FullFrame(id, PayloadOf(id).height)
    IN  /\ Len(ms) <= Len(full)
        /\ \A k \in 1..Len(ms) : ms[k] = full[k]
        /\ IF Handled(id)
             THEN ms = full
             ELSE pc = "cpu" /\ request = [id |-> id, payload |-> PayloadOf(id)]

\* a request whose WebGL render threw has been handled and its two chunks
\* and done are posted; for another the context had been created before
C6_Witness ==
  \E i \in DOMAIN consoleErrors :
    /\ Handled(consoleErrors[i])
    /\ Len(MessagesOf(consoleErrors[i])) >= 3
    /\ glState # NoGlState

\* ------------------------------------------------------------------- C7
\* C7: the worker takes the WebGL path only if the normalized equation is
\* the default or the feather formula, the interior and the exterior mapper
\* sources are the defaults, and maxIterations <= 4096.
C7_WebGLOnlyForDefaults ==
  pc = "webgl" =>
    /\ normalizeEquation(request.payload.equationSource)
         \in {DEFAULT_EQUATION_NORMALIZED, FEATHER_EQUATION_NORMALIZED}
    /\ normalizeInterior(request.payload.interiorSource) = DEFAULT_INTERIOR_NORMALIZED
    /\ normalizeEquation(request.payload.exteriorSource)
         = normalizeEquation(defaultExteriorSource)
    /\ request.payload.maxIterations <= MAX_SHADER_ITERATIONS

\* ------------------------------------------------------------------- C8
\* C8: a pixel of the scalar kernel is Escaped at k exactly when k is the
\* first iteration whose new z has squared magnitude > 256, and Interior
\* (iter = maxIterations) when no iteration exceeds that bound.
C8_EscapeAtSquaredMagnitude256 ==
  (sample.taken /\ ~sample.pixel.threw) =>
    sample.pixel.iter
      = pixelLoop(sample.payload, compileEquation(sample.payload.equationSource).fn,
                  256, sample.x, sample.y).iter

\* ------------------------------------------------------------------- C9
\* C9: when the equation yields a value with a non-finite component at some
\* step of a pixel's loop, the loop ends with iter = maxIterations and the
\* pixel is not coloured as escaped, for a compiled equation as for the
\* fallback evaluator.
C9_NonFiniteIsInterior ==
  (sample.taken /\ ~sample.pixel.threw /\ sample.pixel.rawNonFinite) =>
    sample.pixel.iter = sample.payload.maxIterations

\* ------------------------------------------------------------------ C10
\* C10: a request whose equation and interior mapper pass the compile-time
\* test always gets all its chunks and its terminal message, whatever the
\* formulas do on the per-pixel calls.
C10_RuntimeFailureDoesNotAbort ==
  \A id \in 1..activeRequestId :
    (Handled(id) /\ ~EquationFails(PayloadOf(id)) /\ ~InteriorFails(PayloadOf(id))) =>
      \/ MessagesOf(id) = FullFrame(id, PayloadOf(id).height)
      \/ MessagesOf(id) = <<Message(id, "bitmap", 0, 0)>>

\* ------------------------------------------------------------------ C11
\* C11: for every request whose scalar render ended with an exception that
\* left renderWithCpu (run directly or as the fallback after a WebGL
\* failure), the worker has posted an error message with the request's id.
C11_ErrorOnScalarFailure ==
  \A i \in DOMAIN uncaught :
    \E k \in DOMAIN posted :
      posted[k].id = uncaught[i] /\ posted[k].type = "error"

\* ------------------------------------------------------------------ C12
\* the handler of request id has returned (normally or with an exception)
Returned(id) ==
  /\ id <= Len(submitted)
  /\ \A k \in DOMAIN inbox : inbox[k].id # id
  /\ ~(request.id = id /\ pc # "idle")

\* request j failed: its WebGL render threw, its scalar render threw, or one
\* of its sources does not compile
Failed(j) ==
  \/ \E i \in DOMAIN consoleErrors : consoleErrors[i] = j
  \/ \E i \in DOMAIN uncaught : uncaught[i] = j
  \/ EquationFails(PayloadOf(j)) \/ InteriorFails(PayloadOf(j))

\* C12: a request handled after a request that failed, and whose own scalar
\* render does not throw, gets its complete response sequence: every chunk
\* and done, or the bitmap.
C12_FailureDoesNotAffectLater ==
  \A id \in 2..Len(submitted) :
    (/\ Returned(id)
     /\ \E j \in 1..(id - 1) : Failed(j)
     /\ \A i \in DOMAIN uncaught : uncaught[i] # id)
      => \/ MessagesOf(id) = FullFrame(id, PayloadOf(id).height)
         \/ MessagesOf(id) = <<Message(id, "bitmap", 0, 0)>>

\* the WebGL render of request 1 threw; request 2 was then handled and got
\* its bitmap, with the GL state set
C12_Witness ==
  /\ Len(submitted) >= 2
  /\ Returned(2)
  /\ \E i \in DOMAIN consoleErrors : consoleErrors[i] = 1
  /\ MessagesOf(2) = <<Message(2, "bitmap", 0, 0)>>
  /\ glState # NoGlState

\* ------------------------------------------------------------------ C13
\* a compilation result is a callable and no error, or no callable and an
\* error message
OneOfFnOrError(r) ==
  \/ r.fn /\ r.error = ""
  \/ ~r.fn /\ r.error \notin {"", Undefined}

\* C13: compileEquation and compileInterior return exactly one of a callable
\* and an error message: the callable (with error null) exactly when the
\* construction, the test call and the shape check succeed, and otherwise
\* no callable and a message.
C13_CallableXorMessage ==
  sample.taken =>
    LET e == compileEquation(sample.payload.equationSource)
        i == compileInterior(sample.payload.interiorSource)
    IN  /\ OneOfFnOrError(e)
        /\ OneOfFnOrError(i)
        /\ e.fn <=> (/\ ConstructError(sample.payload.equationSource) = ""
                     /\ isComplexLike(RunEquation(sample.payload.equationSource,
                                                  C0, C0, complex(Fin(2), Fin(0)))))
        /\ i.fn <=> (/\ ConstructError(sample.payload.interiorSource) = ""
                     /\ isRgbLike(RunInterior(sample.payload.interiorSource, 1)))

\* ------------------------------------------------------------------ C14
\* C14: the value a compiled equation evaluator returns is a pair of finite
\* numbers: {0, 0} when the raw result is not {re, im}-shaped or has a
\* non-finite component, and the raw result itself when that is a finite
\* {re, im}.
C14_EvaluatorReturnsFinite ==
  (sample.call.taken /\ ~sample.call.threw) =>
    /\ NumberIsFinite(sample.call.value.re)
    /\ NumberIsFinite(sample.call.value.im)
    /\ IF /\ sample.call.raw.t = "complex"
          /\ sample.call.raw.val.re.k \in {"fin", "unrep"}
          /\ sample.call.raw.val.im.k \in {"fin", "unrep"}
         THEN sample.call.value = sample.call.raw.val
         ELSE sample.call.value = C0

\* a compiled evaluator was called, the user function returned a value with
\* an infinite or NaN component, and the evaluator returned {0, 0}
C14_Witness ==
  /\ sample.call.taken
  /\ sample.call.raw.t = "complex"
  /\ sample.call.raw.val.re.k \in {"inf", "nan"}
  /\ sample.call.value = C0

\* ------------------------------------------------------------------ C15
\* C15: every colour a compiled interior mapper returns has r, g and b that
\* are integers in 0..255, whatever numbers the user function returned in
\* the channels (NaN and the infinities included).
C15_ColourChannelsInRange ==
  (sample.colour.taken /\ ~sample.colour.threw) =>
    \A ch \in {sample.colour.value.r, sample.colour.value.g, sample.colour.value.b} :
      ch.k = "fin" /\ ch.v \in 0..255

C17_SoftRunsAllIterations ==
  (sample.taken /\ ~sample.pixel.threw /\ sample.payload.renderMode = "soft") =>
    sample.pixel.orbitLength = sample.payload.maxIterations

\* ------------------------------------------------------------------ C19
\* C19: evaluating a user formula changes nothing of the worker but through
\* the value it returns: in particular ctx.onmessage stays the handler the
\* worker installed, whatever sources the requests carry.
C19_FormulaCannotReplaceHandler == onmessage

\* ------------------------------------------------------------------ C20
\* C20: the pixel data of a request is a function of its payload alone: the
\* fragment the shader draws for a pixel of a payload and the pixel the
\* scalar path writes for the same pixel of the same payload are coloured
\* alike (by the same colourer, with the same shade).
C20_BackendsAgree ==
  (sample.fragment.taken /\ ~sample.pixel.threw)
    => /\ sample.fragment.by = sample.pixel.by
       /\ sample.fragment.shade = sample.pixel.shade

\* ------------------------------------------------------------------ C21
\* the sampled pixel or orbit is of a render of the default equation with
\* plane variable c, manual z = (0,0), exponent (2,0) and 120 iterations
DefaultScenario ==
  /\ sample.taken \/ sample.orbit.taken
  /\ normalizeEquation(sample.payload.equationSource) = DEFAULT_EQUATION_NORMALIZED
  /\ sample.payload.planeVariable = "c"
  /\ sample.payload.manualValues.z = Cx(0, 0)
  /\ sample.payload.manualValues.exponent = Cx(2, 0)
  /\ sample.payload.maxIterations = 120

C22_InteriorAtMinusHalf ==
  (/\ DefaultScenario
   /\ sample.orbit.taken
   /\ 2 * sample.orbit.c.re.lo <= -Resolution
   /\ -Resolution <= 2 * sample.orbit.c.re.hi
   /\ sample.orbit.c.im.lo <= 0 /\ 0 <= sample.orbit.c.im.hi)
    => /\ ~sample.orbit.escaped
       /\ sample.orbit.done => sample.orbit.iter = sample.payload.maxIterations

\* the loop of the pixel at (-0.5, 0) has run its 120 rounds
C22_Witness ==
  /\ DefaultScenario
  /\ sample.orbit.c = complex(Iv(-(Resolution \div 2), -(Resolution \div 2)), IvInt(0))
  /\ sample.orbit.done
  /\ sample.orbit.orbitLength = 120
  /\ sample.orbit.iter = 120

\* ------------------------------------------------------------------ C23
\* C23 as stated: for every integer n with |n| <= 32 and every z, pow(z, n)
\* is the product of n copies of z under mul (1 for n = 0), and for
\* negative n it is div(1, product of |n| copies of z).
C23_PowIsRepeatedProduct ==
  LET RECURSIVE product(_, _, _)
      product(acc, z, k) ==
        IF k = 0 THEN acc
        ELSE LET next == mul(acc, z) IN
             IF NumberIsFinite(next.re) THEN product(next, z, k - 1) ELSE next
      n == sample.op.b.re.v
  IN  sample.op.name = "pow"
        => sample.op.value = IF n >= 0 THEN product(Cx(1, 0), sample.op.a, n)
                             ELSE div(Cx(1, 0), product(Cx(1, 0), sample.op.a, -n))

\* C23 amended: the same for every z other than (0,0); pow((0,0), n) is
\* (0,0) for every n, n = 0 included.
C23_PowIsRepeatedProductOffZero ==
  LET RECURSIVE product(_, _, _)
      product(acc, z, k) ==
        IF k = 0 THEN acc
        ELSE LET next == mul(acc, z) IN
             IF NumberIsFinite(next.re) THEN product(next, z, k - 1) ELSE next
      n == sample.op.b.re.v
  IN  sample.op.name = "pow"
        => sample.op.value = IF sample.op.a = Cx(0, 0) THEN Cx(0, 0)
                             ELSE IF n >= 0 THEN product(Cx(1, 0), sample.op.a, n)
                             ELSE div(Cx(1, 0), product(Cx(1, 0), sample.op.a, -n))

\* (1 + i)^32 = 65536 has been computed by the loop of squarings
C23_Witness ==
  /\ sample.op.name = "pow"
  /\ sample.op.a = Cx(1, 1)
  /\ sample.op.b = Cx(32, 0)
  /\ sample.op.value = Cx(65536, 0)

\* ------------------------------------------------------------------ C24
\* C24: div(a, b) has two finite components for all finite a and b (with
\* the denominator 1e-12 in place of a zero denominator).
C24_DivIsFinite ==
  sample.op.name = "div"
    => NumberIsFinite(sample.op.value.re) /\ NumberIsFinite(sample.op.value.im)

\* ------------------------------------------------------------------ C25
\* C25: the three channels hslToRgb returns are integers in [0, 255], for
\* every h (negative and 360 or more included) and every s and l in [0, 1].
C25_HslChannelsInRange ==
  sample.op.name = "hslToRgb"
    => \A i \in 1..3 : sample.op.value[i] \in 0..255

\* a negative hue and a hue above 360 have been converted, with a channel
\* at each end of the range
C25_Witness ==
  /\ sample.op.name = "hslToRgb"
  /\ sample.op.a[1] \in {-300, 780}
  /\ sample.op.a[2] = 4 /\ sample.op.a[3] = 2
  /\ sample.op.value = <<255, 255, 0>>

\* ------------------------------------------------------------------ C26
\* C26: every chunk emitted by the scalar path covers at least 2 rows, for
\* every frame height above 0.
C26_ChunkCoversTwoRows ==
  \A i \in DOMAIN posted : posted[i].type = "chunk" => posted[i].rows >= 2

\* C26, amended: every chunk covers at least 1 row and lies inside the
\* frame, and every chunk but the one that ends at the last row of the
\* frame covers at least 2 rows.
C26_ChunkCoversTwoRowsButLast ==
  \A i \in DOMAIN posted :
    posted[i].type = "chunk" =>
      /\ posted[i].rows >= 1
      /\ posted[i].startY + posted[i].rows <= PayloadOf(posted[i].id).height
      /\ posted[i].startY + posted[i].rows < PayloadOf(posted[i].id).height
           => posted[i].rows >= 2

\* a frame of odd height has been emitted as a band of 2 rows and a last
\* band of 1 row
C26_Witness ==
  \E i, j \in DOMAIN posted :
    /\ posted[i].type = "chunk" /\ posted[j].type = "chunk"
    /\ posted[i].id = posted[j].id
    /\ posted[i].startY = 0 /\ posted[i].rows = 2
    /\ posted[j].startY = 2 /\ posted[j].rows = 1

\* ------------------------------------------------------------------ C27
\* C27: the ids of the requests the page posts are 1, 2, 3, ...: each posted
\* request carries the id of the previous one plus 1, the first one carries
\* 1, and so no two requests share an id.
C27_RequestIdsIncreaseByOne ==
  [][Len(submitted') > Len(submitted) =>
       /\ Len(submitted') = Len(submitted) + 1
       /\ inbox' = Append(inbox, inbox'[Len(inbox')])
       /\ inbox'[Len(inbox')].id = Len(submitted')]_vars

\* two requests have been posted, with the ids 1 and 2
C27_Witness ==
  /\ Len(submitted) = 2
  /\ Len(inbox) = 2
  /\ inbox[1].id = 1 /\ inbox[2].id = 2

\* ------------------------------------------------------------------ C28
\* C28: in every state of the control surface maxIterations is an integer
\* from 1 to 1000, and so it is in every payload posted, under any sequence
\* of ',' and '.' hotkeys, slider changes and resets.
C28_MaxIterationsInRange ==
  /\ inputs.maxIterations \in MIN_ITERATIONS..MAX_ITERATIONS
  /\ \A i \in DOMAIN inbox :
       inbox[i].payload.maxIterations \in MIN_ITERATIONS..MAX_ITERATIONS

\* a request has been posted with a value below the upper end, and after
\* the '.' hotkey one with the upper end
C28_Witness ==
  /\ Len(inbox) = 2
  /\ inbox[1].payload.maxIterations \in 910..999
  /\ inbox[2].payload.maxIterations = MAX_ITERATIONS
  /\ inputs.maxIterations = MAX_ITERATIONS

\* ------------------------------------------------------------------ C29
\* C29: the scalar kernel and the shader kernel classify every orbit alike:
\* started from the same values they stop at the same iter, escaped at the
\* same step or interior in both.
C29_KernelsClassifyAlike ==
  sample.op.name = "classify" => sample.op.value.scalar = sample.op.value.shader

\* ------------------------------------------------------------------ C30
\* C30: the plane coordinate of pixel (x, y) of a width x height frame is
\* center + R(rotation) * ((x - width/2) * scale/width, (y - height/2) *
\* scale/width), and the scalar path and the accelerated path give the
\* same plane coordinate to the same pixel.  (The rotation of the payloads
\* is 0; the products are taken times 2 * width.)
C30_SamePlaneCoordinate ==
  sample.op.name = "planeValue" =>
    LET p == sample.payload IN
    /\ 2 * p.width * (sample.op.a.re.v - p.center.re.v)
         = (2 * sample.x - p.width) * p.scale
    /\ 2 * p.width * (sample.op.a.im.v - p.center.im.v)
         = (2 * sample.y - p.height) * p.scale
    /\ sample.op.a = sample.op.b

\* ------------------------------------------------------------------ C31
\* C31: of the start values z, c and exponent of a pixel, the one the
\* payload's planeVariable names is the pixel's plane coordinate and the
\* other two are the payload's manual values, in the scalar path and in
\* the accelerated path (each with the plane coordinate it computes).
C31_PlaneVariableSubstituted ==
  sample.op.name = "start" =>
    \A k \in {"z", "c", "exponent"} :
      IF k = sample.payload.planeVariable
        THEN /\ sample.op.a[k] = planeValue(sample.payload, sample.x, sample.y)
             /\ sample.op.b[k] = fragmentPlaneValue(sample.payload, sample.x, sample.y)
        ELSE /\ sample.op.a[k] = sample.payload.manualValues[k]
             /\ sample.op.b[k] = sample.payload.manualValues[k]

\* the plane drives z: both paths start z at a plane coordinate that is
\* none of the manual values, and leave c and the exponent manual
C31_Witness ==
  /\ sample.op.name = "start"
  /\ sample.payload.planeVariable = "z"
  /\ sample.op.a.z \notin {sample.payload.manualValues[k] : k \in {"z", "c", "exponent"}}
  /\ sample.op.b.z \notin {sample.payload.manualValues[k] : k \in {"z", "c", "exponent"}}
  /\ sample.op.a.c = sample.payload.manualValues.c
  /\ sample.op.b.exponent = sample.payload.manualValues.exponent

\* ------------------------------------------------------------------ C32
\* C32: when a scalar render has run to completion (done is posted), its
\* chunks start at row 0, each chunk starts at the row where the previous
\* one ended (so startY increases strictly), each has rows =
\* min(rowsPerChunk, height - startY), and the last one ends at the last
\* row: every row 0..height-1 is covered exactly once before done.
C32_ChunksCoverFrameOnce ==
  \A id \in 1..activeRequestId :
    LET m == MessagesOf(id)
        height == PayloadOf(id).height
    IN  (m # <<>> /\ m[Len(m)].type = "done") =>
          /\ Len(m) >= 2
          /\ \A i \in 1..(Len(m) - 1) :
               /\ m[i].type = "chunk"
               /\ m[i].startY = (IF i = 1 THEN 0 ELSE m[i - 1].startY + m[i - 1].rows)
               /\ i > 1 => m[i].startY > m[i - 1].startY
               /\ m[i].rows = (IF rowsPerChunk(height) < height - m[i].startY
                                THEN rowsPerChunk(height) ELSE height - m[i].startY)
          /\ m[Len(m) - 1].startY + m[Len(m) - 1].rows = height

\* a scalar render of a frame of two bands has run to completion
C32_Witness ==
  \E id \in 1..activeRequestId :
    /\ Len(MessagesOf(id)) = 3
    /\ MessagesOf(id)[3].type = "done"
    /\ MessagesOf(id)[2].startY > 0

\* ------------------------------------------------------------------ C33
\* C33: the worker handles one render message to completion before it
\* starts the next: in the stream of its responses the ids never decrease
\* (the messages of one id are contiguous, none for id k follows one for a
\* greater id), and activeRequestId is the id of the message being handled.
C33_OneRequestAtATime ==
  /\ \A i, j \in DOMAIN posted : i < j => posted[i].id <= posted[j].id
  /\ \A i \in DOMAIN posted : posted[i].id <= activeRequestId
  /\ pc # "idle" => activeRequestId = request.id

\* the worker is handling the second request after it has posted the chunks
\* and done of the first, which the page had superseded meanwhile
C33_Witness ==
  /\ pc = "cpu" /\ request.id = 2 /\ startY > 0
  /\ \E i, j \in DOMAIN posted :
       /\ posted[i].id = 1 /\ posted[i].type = "done"
       /\ posted[j].id = 2 /\ posted[j].type = "chunk"
  /\ submitted[2].during = 1

\* ------------------------------------------------------------------ C34
\* C34: compiled evaluators are cached by source text: when two consecutive
\* render requests carry the same equationSource and interiorSource, the
\* sources are compiled once and the evaluators reused.  renderWithCpu
\* compiles both sources where it starts (pc becomes "cpu"): it does not
\* start for a request whose predecessor it has rendered (a chunk or done
\* is posted for it) from the same two texts.
C34_CompiledOncePerSource ==
  [][(pc # "cpu" /\ pc' = "cpu") =>
       ~\E i \in DOMAIN posted :
          /\ posted[i].type \in {"chunk", "done"}
          /\ posted[i].id = request'.id - 1
          /\ PayloadOf(posted[i].id).equationSource = request'.payload.equationSource
          /\ PayloadOf(posted[i].id).interiorSource = request'.payload.interiorSource]_vars

\* ------------------------------------------------------------------ C35
\* C35: the context of the accelerated backend is created lazily, by the
\* first eligible request, and at most once: once glState is set it is
\* never replaced, every later accelerated render reuses the same context
\* with its canvas resized to the width and height of the request it
\* renders, and a failed creation leaves glState null.
C35_ContextCreatedOnce ==
  /\ [](glState # NoGlState =>
          \E id \in 1..activeRequestId : useWebGL(PayloadOf(id)))
  /\ [][(glState' # glState =>
            (/\ pc = "webgl"
             /\ glState'.context = 1
             /\ glState'.width = request.payload.width
             /\ glState'.height = request.payload.height))
       /\ (glState # NoGlState => glState'.context = glState.context)
       /\ ((pc = "webgl" /\ pc' # "webgl" /\ glState # NoGlState) =>
            (/\ glState'.width = request.payload.width
             /\ glState'.height = request.payload.height))
       /\ ((pc = "webgl" /\ pc' # "webgl" /\ glState = NoGlState) =>
            (glState' = NoGlState \/ glState'.context = 1))]_vars

\* the context created for the first request has rendered the second one,
\* a frame of another height, with its canvas resized
C35_Witness ==
  /\ MessagesOf(1) = <<Message(1, "bitmap", 0, 0)>>
  /\ MessagesOf(2) = <<Message(2, "bitmap", 0, 0)>>
  /\ PayloadOf(1).height # PayloadOf(2).height
  /\ glState = [context |-> 1, width |-> PayloadOf(2).width,
                height |-> PayloadOf(2).height]

\* ------------------------------------------------------------------ C36
\* C36: the page posts a render request only when its sources compile: no
\* payload whose equationSource (or interiorSource) fails to compile is
\* ever sent to the worker, the update that follows the edit included.
C36_OnlyCompilingSourcesPosted ==
  \A id \in DOMAIN submitted :
    ~EquationFails(PayloadOf(id)) /\ ~InteriorFails(PayloadOf(id))

\* ------------------------------------------------------------------ C37
\* C37: once the user changes nothing more after a request, the page
\* eventually receives the terminal message of the latest request and sets
\* isRendering to false: isRendering does not stay true forever.
C37_RenderingEventuallyEnds == isRendering ~> ~isRendering

\* ------------------------------------------------------------------ C38
\* C38: the ',' hotkey strictly decreases maxIterations unless it is 1, and
\* the '.' hotkey strictly increases it unless it is 1000, for every value
\* from 1 to 1000: the hotkeys never leave the value stuck between the
\* bounds.
C38_HotkeysAlwaysMove ==
  /\ \A value \in commaUpdater(inputs.maxIterations) :
       inputs.maxIterations # MIN_ITERATIONS => value < inputs.maxIterations
  /\ \A value \in periodUpdater(inputs.maxIterations) :
       inputs.maxIterations # MAX_ITERATIONS => value > inputs.maxIterations

\* the ',' hotkey has taken the value from 12 to 10 and the '.' hotkey can
\* take it on to 11 or 12 (10 * 1.1 is a multiple of the factor's rounding)
C38_Witness ==
  /\ Len(inbox) = 2
  /\ inbox[1].payload.maxIterations = 12
  /\ inbox[2].payload.maxIterations = 10
  /\ inputs.maxIterations = 10
  /\ periodUpdater(inputs.maxIterations) = {11, 12}

====
